---- MODULE Spec2Model ----
(***************************************************************************)
(* Model of the finance-dashboard ingestion pipeline:                      *)
(*   src/src/utils/parser.py   value normalizer, sweep pass, parse_csv     *)
(*   src/src/database/db.py    ledger store, duplicate check, transfers    *)
(*   src/app.py                the Streamlit handlers driving both         *)
(*                                                                         *)
(* Text is modelled as text: descriptions, dates and amounts are TLA+      *)
(* strings, scanned with SubSeq the way the Python code scans them.        *)
(* Amounts (Python floats) are integers counting hundredths of a rupee.    *)
(***************************************************************************)
EXTENDS Integers, Sequences, FiniteSets, TLC

(***************************************************************************)
(* Bounds of the model.                                                    *)
(***************************************************************************)
MaxRows == 3
MaxLedger == 4
MaxAdjustments == 1
MaxStored == 2
MaxBatch == 2
MaxDetect == 3
MaxGenericRows == 2
MaxStoreLedger == 3
MaxSweepRows == 3
MaxViewLedger == 2
MaxViewAdjustments == 2
MaxParallelBatch == 2

(***************************************************************************)
(* Generic sequence helpers.                                               *)
(***************************************************************************)
RECURSIVE SeqSum(_)
SeqSum(s) == IF s = <<>> THEN 0 ELSE Head(s) + SeqSum(Tail(s))

SeqsUpTo(S, n) == UNION {[1..k -> S] : k \in 0..n}

Range(s) == {s[i] : i \in DOMAIN s}

(***************************************************************************)
(* Python str operations, on TLA+ strings.                                 *)
(***************************************************************************)
CharAt(s, i) == SubSeq(s, i, i)

StartsWith(s, k) == Len(k) <= Len(s) /\ SubSeq(s, 1, Len(k)) = k

EndsWith(s, k) == Len(k) <= Len(s) /\ SubSeq(s, Len(s) - Len(k) + 1, Len(s)) = k

\* k in s
Contains(s, k) == \E i \in 1..(Len(s) - Len(k) + 1) : SubSeq(s, i, i + Len(k) - 1) = k

\* the concatenation of the strings q[lo], ..., q[hi]
RECURSIVE Flat(_, _, _)
Flat(q, lo, hi) ==
    IF lo > hi THEN ""
    ELSE IF lo = hi THEN q[lo]
    ELSE Flat(q, lo, (lo + hi) \div 2) \o Flat(q, (lo + hi) \div 2 + 1, hi)

\* s.find(k) + 1; 0 when k is not in s
Find(s, k) ==
    IF Contains(s, k)
    THEN CHOOSE i \in 1..(Len(s) - Len(k) + 1) :
            /\ SubSeq(s, i, i + Len(k) - 1) = k
            /\ \A h \in 1..(i - 1) : SubSeq(s, h, h + Len(k) - 1) # k
    ELSE 0

\* s.replace(k, r): every non-overlapping occurrence, left to right
RECURSIVE Replace(_, _, _)
Replace(s, k, r) ==
    IF Len(k) = 0 \/ Find(s, k) = 0 THEN s
    ELSE SubSeq(s, 1, Find(s, k) - 1) \o r
            \o Replace(SubSeq(s, Find(s, k) + Len(k), Len(s)), k, r)

LStrip(s) ==
    IF \A i \in 1..Len(s) : CharAt(s, i) = " " THEN ""
    ELSE SubSeq(s, CHOOSE i \in 1..Len(s) :
                      CharAt(s, i) # " " /\ \A h \in 1..(i - 1) : CharAt(s, h) = " ",
                Len(s))

RStrip(s) ==
    IF \A i \in 1..Len(s) : CharAt(s, i) = " " THEN ""
    ELSE SubSeq(s, 1, CHOOSE i \in 1..Len(s) :
                         CharAt(s, i) # " " /\ \A h \in (i + 1)..Len(s) : CharAt(s, h) = " ")

\* s.strip()
Strip(s) == RStrip(LStrip(s))

Lower == <<"a","b","c","d","e","f","g","h","i","j","k","l","m",
           "n","o","p","q","r","s","t","u","v","w","x","y","z">>
UpperLetters == <<"A","B","C","D","E","F","G","H","I","J","K","L","M",
           "N","O","P","Q","R","S","T","U","V","W","X","Y","Z">>

UpChar(c) == IF \E i \in 1..26 : Lower[i] = c
             THEN UpperLetters[CHOOSE i \in 1..26 : Lower[i] = c]
             ELSE c

LowChar(c) == IF \E i \in 1..26 : UpperLetters[i] = c
              THEN Lower[CHOOSE i \in 1..26 : UpperLetters[i] = c]
              ELSE c

\* s.lower()
ToLower(s) == Flat([i \in 1..Len(s) |-> LowChar(CharAt(s, i))], 1, Len(s))

\* s.upper()
Upper(s) == Flat([i \in 1..Len(s) |-> UpChar(CharAt(s, i))], 1, Len(s))

Digits == <<"0","1","2","3","4","5","6","7","8","9">>

IsDigit(c) == \E i \in 1..10 : Digits[i] = c

DigitVal(c) == (CHOOSE i \in 1..10 : Digits[i] = c) - 1

AllDigits(s) == Len(s) > 0 /\ \A i \in 1..Len(s) : IsDigit(CharAt(s, i))

RECURSIVE NatOf(_)
NatOf(s) == IF Len(s) = 0 THEN 0
            ELSE 10 * NatOf(SubSeq(s, 1, Len(s) - 1)) + DigitVal(CharAt(s, Len(s)))

\* s.split(sep) for a one-character separator
RECURSIVE Split(_, _)
Split(s, sep) ==
    IF Find(s, sep) = 0 THEN <<s>>
    ELSE <<SubSeq(s, 1, Find(s, sep) - 1)>> \o Split(SubSeq(s, Find(s, sep) + 1, Len(s)), sep)

(***************************************************************************)
(* Value Normalizer (src/src/utils/parser.py).                             *)
(* A raw cell is the text of a CSV cell; "" is the empty cell that pandas  *)
(* reads as NaN.                                                           *)
(***************************************************************************)
\* float(text): [sign] digits [. digits], in hundredths; anything else raises ValueError.
\* Texts with more than two fraction digits are outside the modelled inputs.
FloatOk(t) ==
    LET u    == IF StartsWith(t, "-") \/ StartsWith(t, "+") THEN SubSeq(t, 2, Len(t)) ELSE t
        p    == Split(u, ".")
    IN  \/ Len(p) = 1 /\ AllDigits(p[1])
        \/ /\ Len(p) = 2
           /\ Len(p[2]) <= 2
           /\ (AllDigits(p[1]) \/ p[1] = "")
           /\ (AllDigits(p[2]) \/ p[2] = "")
           /\ ~(p[1] = "" /\ p[2] = "")

FloatOf(t) ==
    LET neg  == StartsWith(t, "-")
        u    == IF StartsWith(t, "-") \/ StartsWith(t, "+") THEN SubSeq(t, 2, Len(t)) ELSE t
        p    == Split(u, ".")
        frac == IF Len(p) = 1 THEN 0
                ELSE IF Len(p[2]) = 1 THEN 10 * NatOf(p[2]) ELSE NatOf(p[2])
        mag  == 100 * NatOf(p[1]) + frac
    IN  IF neg THEN 0 - mag ELSE mag

safe_float(value) ==
    IF value = "" THEN 0
    ELSE LET v1 == Strip(Replace(Replace(value, ",", ""), "\"", ""))
             v2 == IF StartsWith(v1, "(") /\ EndsWith(v1, ")")
                   THEN "-" \o SubSeq(v1, 2, Len(v1) - 1)
                   ELSE v1
             v3 == Strip(Replace(Replace(Replace(v2, "₹", ""), "Rs.", ""), "Rs", ""))
             v4 == Strip(v3)
         IN  IF FloatOk(v4) THEN FloatOf(v4) ELSE 0

\* n rupees in the unit of the model's amounts
Rupees(n) == 100 * n

MonthAbbr == <<"JAN","FEB","MAR","APR","MAY","JUN","JUL","AUG","SEP","OCT","NOV","DEC">>

NoDate == [d |-> 0, m |-> 0, y |-> 0]

IsLeap(y) == (y % 4 = 0 /\ y % 100 # 0) \/ y % 400 = 0

DaysInMonth(m, y) ==
    IF m = 2 THEN (IF IsLeap(y) THEN 29 ELSE 28)
    ELSE IF m \in {4, 6, 9, 11} THEN 30 ELSE 31

\* One strptime directive applied to one field; 0 when the field does not match.
\* (%Y yields 0 only for "0000", which datetime rejects as well.)
Directive(c, f) ==
    CASE c = "d" -> IF Len(f) \in {1, 2} /\ AllDigits(f) /\ NatOf(f) \in 1..31 THEN NatOf(f) ELSE 0
      [] c = "m" -> IF Len(f) \in {1, 2} /\ AllDigits(f) /\ NatOf(f) \in 1..12 THEN NatOf(f) ELSE 0
      [] c = "b" -> IF \E i \in 1..12 : MonthAbbr[i] = Upper(f)
                    THEN CHOOSE i \in 1..12 : MonthAbbr[i] = Upper(f) ELSE 0
      [] c = "y" -> IF Len(f) = 2 /\ AllDigits(f)
                    THEN (IF NatOf(f) <= 68 THEN 2000 + NatOf(f) ELSE 1900 + NatOf(f)) ELSE 0
      [] c = "Y" -> IF Len(f) = 4 /\ AllDigits(f) THEN NatOf(f) ELSE 0

\* datetime.strptime(s, fmt) for the formats of the code: three fields joined by
\* one separator.  fmt = [sep, order], order naming the directive of each field.
FieldOf(fmt, p, c) ==
    LET i == CHOOSE j \in 1..3 : fmt.order[j] \in c IN Directive(fmt.order[i], p[i])

Strptime(s, fmt) ==
    LET p == Split(s, fmt.sep)
    IN  IF Len(p) # 3 THEN NoDate
        ELSE LET dd == FieldOf(fmt, p, {"d"})
                 mm == FieldOf(fmt, p, {"m", "b"})
                 yy == FieldOf(fmt, p, {"y", "Y"})
             IN  IF dd = 0 \/ mm = 0 \/ yy = 0 THEN NoDate
                 ELSE IF dd > DaysInMonth(mm, yy) THEN NoDate
                 ELSE [d |-> dd, m |-> mm, y |-> yy]

\* str(n) for n >= 0
RECURSIVE StrOf(_)
StrOf(n) == IF n < 10 THEN Digits[n + 1] ELSE StrOf(n \div 10) \o Digits[(n % 10) + 1]

\* n printed in at least w digits (%02d, %04d)
Pad(n, w) ==
    IF Len(StrOf(n)) >= w THEN StrOf(n)
    ELSE IF w - Len(StrOf(n)) = 1 THEN "0" \o StrOf(n)
    ELSE IF w - Len(StrOf(n)) = 2 THEN "00" \o StrOf(n)
    ELSE "000" \o StrOf(n)

\* strftime("%d-%m-%Y")
Strftime(dt) == Pad(dt.d, 2) \o "-" \o Pad(dt.m, 2) \o "-" \o Pad(dt.y, 4)

Fmt_d_b_y      == [sep |-> "-", order |-> <<"d", "b", "y">>]
Fmt_d_m_Y      == [sep |-> "-", order |-> <<"d", "m", "Y">>]
Fmt_d_m_Y_sl   == [sep |-> "/", order |-> <<"d", "m", "Y">>]
Fmt_Y_m_d      == [sep |-> "-", order |-> <<"Y", "m", "d">>]
Fmt_d_m_y      == [sep |-> "-", order |-> <<"d", "m", "y">>]
Fmt_d_m_y_sl   == [sep |-> "/", order |-> <<"d", "m", "y">>]

date_formats(bank) ==
    IF Upper(bank) = "SBI" THEN <<Fmt_d_b_y>>
    ELSE IF Upper(bank) = "HDFC" THEN <<Fmt_d_m_y_sl>>
    ELSE <<Fmt_d_b_y, Fmt_d_m_Y, Fmt_d_m_Y_sl, Fmt_Y_m_d, Fmt_d_m_y, Fmt_d_m_y_sl>>

RECURSIVE TryFormats(_, _)
TryFormats(s, fmts) ==
    IF fmts = <<>> THEN s
    ELSE IF Strptime(s, Head(fmts)) # NoDate THEN Strftime(Strptime(s, Head(fmts)))
    ELSE TryFormats(s, Tail(fmts))

parse_date(date_str, bank) ==
    IF date_str = "" THEN ""
    ELSE TryFormats(Strip(date_str), date_formats(bank))

\* re.sub(r'\s+', ' ', s) on blanks: of a run of blanks the last one stays
CollapseSpaces(s) ==
    Flat([i \in 1..Len(s) |->
            IF CharAt(s, i) = " " /\ i < Len(s) /\ CharAt(s, i + 1) = " "
            THEN "" ELSE CharAt(s, i)], 1, Len(s))

\* position i of s lies in a run of character c of at least min characters
InRun(s, i, c, min) ==
    /\ CharAt(s, i) = c
    /\ \E a \in 1..i, b \in i..Len(s) :
          b - a + 1 >= min /\ \A j \in a..b : CharAt(s, j) = c

\* re.sub of a run of c of at least min characters by ''
DropRuns(s, c, min) ==
    Flat([i \in 1..Len(s) |-> IF InRun(s, i, c, min) THEN "" ELSE CharAt(s, i)], 1, Len(s))

clean_description(description) ==
    DropRuns(DropRuns(CollapseSpaces(Strip(description)), "-", 2), "*", 1)

sweep_keywords == <<"DEBIT SWEEP", "TRANSFER CREDIT-", "SWEEP TO", "SWEEP FROM">>

is_sweep_transaction(description) ==
    \E i \in DOMAIN sweep_keywords : Contains(Upper(description), sweep_keywords[i])


(***************************************************************************)
(* A statement file of data/.                                              *)
(*   name      the file name without its extension (Owner_Bank[_year])     *)
(*   mod       the quoted value of the "MOD Balance" header line, "" when  *)
(*             the file has no such line                                   *)
(*   preamble  the number of lines before the line of column titles        *)
(*   header    the column titles as the file writes them, one per column   *)
(*             of Slots; "" for a column the file does not have            *)
(*   rows      the cells of the tabular body, by column                    *)
(*   readable  FALSE when pd.read_csv raises whatever the encoding         *)
(***************************************************************************)
Slots == {"date", "description", "debit", "credit", "balance"}

RawRow(date, description, debit, credit, balance) ==
    [date |-> date, description |-> description, debit |-> debit,
     credit |-> credit, balance |-> balance]

\* lines 166-174: owner and bank from the file name
name_parts(f) == Split(f.name, "_")

FileOwner(f) == name_parts(f)[1]

FileBank(f) == IF Len(name_parts(f)) >= 2 THEN name_parts(f)[2] ELSE "Unknown"

\* A faulty profile that skips the header lines of a bank export for every bank.
skip_rows_always(bank) == 20

\* line 190
skip_rows(bank) == IF Upper(bank) \in {"SBI", "HDFC"} THEN 20 ELSE 0

\* lines 206-245: the titles looked for, per canonical column, in order
col_map(bank) ==
    IF Upper(bank) = "SBI"
    THEN [date        |-> <<"txn date">>,
          description |-> <<"description">>,
          debit       |-> <<"debit">>,
          credit      |-> <<"credit">>,
          balance     |-> <<"balance">>]
    ELSE IF Upper(bank) = "HDFC"
    THEN [date        |-> <<"date">>,
          description |-> <<"narration">>,
          debit       |-> <<"withdrawal amt.">>,
          credit      |-> <<"deposit amt.">>,
          balance     |-> <<"closing balance">>]
    ELSE [date        |-> <<"date", "txn date", "transaction date", "value date",
                            "posting date", "effective date", "trans date">>,
          description |-> <<"description", "narration", "remarks", "transaction details",
                            "particulars", "transaction description", "details">>,
          debit       |-> <<"debit", "withdrawal amt.", "withdrawal amount", "debit amount",
                            "dr amount", "withdrawal", "paid out", "debit amt">>,
          credit      |-> <<"credit", "deposit amt.", "deposit amount", "credit amount",
                            "cr amount", "deposit", "paid in", "credit amt">>,
          balance     |-> <<"balance", "balance amt.", "available balance", "closing balance",
                            "running balance", "bal amount", "balance amount">>]

\* the column titles each bank's export writes
NativeHeader(bank) ==
    IF Upper(bank) = "SBI"
    THEN RawRow("Txn Date", "Description", "Debit", "Credit", "Balance")
    ELSE IF Upper(bank) = "HDFC"
    THEN RawRow("Date", "Narration", "Withdrawal Amt.", "Deposit Amt.", "Closing Balance")
    ELSE RawRow("Date", "Description", "Debit", "Credit", "Balance")

\* the number of lines each bank's export writes before the line of titles
NativePreamble(bank) == IF Upper(bank) \in {"SBI", "HDFC"} THEN 20 ELSE 0

\* the export of a bank, named Owner_Bank.csv
StatementFile(owner, bank, mod, rows) ==
    [name |-> owner \o "_" \o bank, mod |-> mod, preamble |-> NativePreamble(bank),
     header |-> NativeHeader(bank), rows |-> rows, readable |-> TRUE]

\* lines 192-203: the frame's column names.  With skiprows lines skipped, the next
\* line is taken as the line of titles; when that is not the file's line of titles
\* (a preamble line, or a body row) none of the names is a column title.
Columns(f) ==
    IF f.preamble = skip_rows(FileBank(f))
    THEN [s \in Slots |-> ToLower(Strip(f.header[s]))]
    ELSE [s \in Slots |-> ""]

\* lines 247-262: the file column that ends up under the canonical name std; "" when
\* there is none.  A column that bears the canonical name already stays as it is.
ColumnFor(f, std) ==
    LET names     == Columns(f)
        possibles == col_map(FileBank(f))[std]
        found     == {p \in DOMAIN possibles : \E s \in Slots : names[s] = possibles[p]}
    IN  IF found # {}
        THEN CHOOSE s \in Slots : names[s] = possibles[CHOOSE p \in found : \A o \in found : p <= o]
        ELSE IF \E s \in Slots : names[s] = std
        THEN CHOOSE s \in Slots : names[s] = std
        ELSE ""

HasColumn(f, std) == ColumnFor(f, std) # ""


(***************************************************************************)
(* The statement rows and files the model draws its inputs from.           *)
(***************************************************************************)
SweepTo     == RawRow("01-Apr-23", "DEBIT SWEEP TO MOD", "1,000.00", "", "4,000.00")
SweepFrom   == RawRow("02-Apr-23", "TRANSFER CREDIT-SWEEP FROM MOD", "", "500.00", "4,500.00")
CreditNeft  == RawRow("02-Apr-23", "TRANSFER CREDIT-NEFT RENT", "", "300.00", "4,800.00")
UpiDebit    == RawRow("03-Apr-23", "UPI/YESB/1234/JOHN", "100.00", "", "3,900.00")
Salary      == RawRow("31-Mar-23", "SALARY  MARCH", "", "Rs. 5,000", "(50)")
BadDate     == RawRow("n/a", "ATM WDL", "abc", "", "20")
BlankDate   == RawRow("", "MISC ADJ ENTRY", "", "", "")

ParsePool  == {SweepTo, SweepFrom, CreditNeft, UpiDebit, Salary, BadDate, BlankDate}
ParseBanks == {"SBI", "ICICI"}

\* exports of banks without a profile of their own: rows with dates in several of
\* the common formats, a day that does not exist, and amounts that are no numbers
GenericPool ==
    {RawRow("05-04-2022", "SWIGGY ORDER 48213", "250.00", "", "1,000.00"),
     RawRow("2022-04-06", "MISC ADJ ENTRY", "abc", "12.50", "n/a"),
     RawRow("07/04/22", "ATM WDL", "1,500", "", "(500.00)"),
     RawRow("31-02-2022", "LATE FEE", "10", "", "990")}

GenericHeaders ==
    {RawRow("Date", "Description", "Debit", "Credit", "Balance"),
     RawRow(" Value Date", "Particulars", "Withdrawal", "Paid In", "Running Balance ")}

\* file names: a bank without a profile, no underscore at all, a trailing year
GenericNames == {"Carol_AXIS", "statement", "Carol_kotak_2023"}

ProfileFiles ==
    {[name |-> n, mod |-> "", preamble |-> p, header |-> h, rows |-> r, readable |-> TRUE] :
        n \in GenericNames, p \in {0, 20}, h \in GenericHeaders,
        r \in SeqsUpTo(GenericPool, MaxGenericRows)}


\* the files of data/, for the handlers of app.py
AliceHDFC ==
    StatementFile("Alice", "HDFC", "",
        <<RawRow("01/04/23", "UPI/YESB/1234/JOHN", "5,000.00", "", "10,000.00")>>)
\* the same account, exported again: the first row with another balance, and one more
AliceHDFCLater ==
    StatementFile("Alice", "HDFC", "",
        <<RawRow("01/04/23", "UPI/YESB/1234/JOHN", "5,000.00", "", "9,000.00"),
          RawRow("02/04/23", "SWIGGY ORDER 48213", "250.00", "", "8,750.00")>>)
BobSBI ==
    StatementFile("Bob", "SBI", "11,21,000.00",
        <<RawRow("01-Apr-23", "BY TRANSFER-NEFT ALICE", "", "5,000.00", "7,000.00"),
          RawRow("02-Apr-23", "DEBIT SWEEP TO MOD", "1,000.00", "", "6,000.00")>>)
AliceICICI ==
    StatementFile("Alice", "ICICI", "",
        <<RawRow("2023-04-01", "MISC ADJ ENTRY", "", "5,000.00", "5,000.00")>>)
\* a statement whose row carries an amount in both columns
AliceBoth ==
    StatementFile("Alice", "HDFC", "",
        <<RawRow("01/04/23", "NEFT/PUNB/REVERSAL", "5,000.00", "5,000.00", "10,000.00")>>)
Unreadable ==
    [StatementFile("Bob", "AXIS", "", <<>>) EXCEPT !.readable = FALSE]

DataFiles == {AliceHDFC, AliceHDFCLater, BobSBI, AliceICICI, Unreadable}

Listings == {<<f>> : f \in DataFiles} \cup {<<f, g>> : f, g \in DataFiles}

AllRawRows == ParsePool \cup GenericPool \cup UNION {Range(f.rows) : f \in DataFiles}

extract_mod_balance(f) == IF f.mod = "" THEN 0 ELSE safe_float(f.mod)

\* the file column under each canonical name, resolved once per file
ResolvedColumns(f) ==
    [date        |-> ColumnFor(f, "date"),
     description |-> ColumnFor(f, "description"),
     debit       |-> ColumnFor(f, "debit"),
     credit      |-> ColumnFor(f, "credit"),
     balance     |-> ColumnFor(f, "balance")]

\* the cell of a body row under the canonical name std; "" (NaN) without the column
Cell(row, cols, std) == IF cols[std] # "" THEN row[cols[std]] ELSE ""

\* lines 264-278 on the rows of the body, cols naming their columns
NormalizeFrame(rows, cols, bank) ==
    [i \in 1..Len(rows) |->
        [src         |-> i,
         date        |-> parse_date(Cell(rows[i], cols, "date"), bank),
         description |-> clean_description(Cell(rows[i], cols, "description")),
         is_sweep    |-> is_sweep_transaction(
                            clean_description(Cell(rows[i], cols, "description"))),
         debit       |-> safe_float(Cell(rows[i], cols, "debit")),
         credit      |-> safe_float(Cell(rows[i], cols, "credit")),
         balance     |-> safe_float(Cell(rows[i], cols, "balance")),
         remove      |-> FALSE]]

\* parse_csv, lines 258-278: the cleaned data frame; src is the frame's index label
NormalizeRows(f) == NormalizeFrame(f.rows, ResolvedColumns(f), FileBank(f))

(***************************************************************************)
(* Sweep Reconciler: process_sweep_transactions.  One SweepRow is one      *)
(* iteration of the loop over the frame, on the loop state                 *)
(* [df, idx, sweep_balance, balance_adjustment].                           *)
(***************************************************************************)
SweepStart(frame, mod_balance) ==
    [df |-> frame, idx |-> 1, sweep_balance |-> mod_balance, balance_adjustment |-> 0]

\* The pending delta written to a surviving row's balance (lines 149-152).
ApplyAdjustment(row, pending) ==
    [row EXCEPT !.balance = @ + pending]

\* A faulty loop that never resets the pending delta: C23 must tell it apart.
KeepPending(pending) == pending

\* The pending delta after a surviving row took it (line 152).
AfterApply(pending) == 0

SweepRow(st) ==
    LET row          == st.df[st.idx]
        sweep_amount == IF row.debit > 0 THEN row.debit ELSE row.credit
        up           == Upper(row.description)
    IN  IF row.is_sweep
        THEN LET marked == [st.df EXCEPT ![st.idx].remove = TRUE]
             IN  IF Contains(up, "DEBIT SWEEP")
                 THEN [df |-> marked, idx |-> st.idx + 1,
                       sweep_balance |-> st.sweep_balance + sweep_amount,
                       balance_adjustment |-> st.balance_adjustment - sweep_amount]
                 ELSE IF Contains(up, "TRANSFER CREDIT-SWEEP")
                 THEN [df |-> marked, idx |-> st.idx + 1,
                       sweep_balance |-> st.sweep_balance - sweep_amount,
                       balance_adjustment |-> st.balance_adjustment + sweep_amount]
                 ELSE [st EXCEPT !.df = marked, !.idx = st.idx + 1]
        ELSE IF st.balance_adjustment # 0
             THEN [st EXCEPT !.df[st.idx] = ApplyAdjustment(row, st.balance_adjustment),
                             !.idx = st.idx + 1,
                             !.balance_adjustment = AfterApply(st.balance_adjustment)]
             ELSE [st EXCEPT !.idx = st.idx + 1]

RECURSIVE SweepLoop(_)
SweepLoop(st) == IF st.idx > Len(st.df) THEN st ELSE SweepLoop(SweepRow(st))

\* Line 155: df_processed[df_processed.get('remove', False) != True].  The column
\* 'remove' exists only once line 147 has run; without it get() returns False, the
\* comparison is the scalar True, and df_processed[True] raises KeyError.
HasRemoveColumn(frame) == \E i \in DOMAIN frame : frame[i].remove

SweepFilter(frame) == SelectSeq(frame, LAMBDA r : ~r.remove)

\* [ok, df]: ok is FALSE when the call raises
process_sweep_transactions(frame, mod_balance) ==
    IF frame = <<>> THEN [ok |-> TRUE, df |-> frame]
    ELSE LET done == SweepLoop(SweepStart(frame, mod_balance))
         IN  IF HasRemoveColumn(done.df)
             THEN [ok |-> TRUE, df |-> SweepFilter(done.df)]
             ELSE [ok |-> FALSE, df |-> <<>>]

(***************************************************************************)
(* parse_csv, lines 284-320: drop rows without a date, order by date,      *)
(* build the record tuples.                                                *)
(***************************************************************************)
\* pd.to_datetime(text, format="%d-%m-%Y", errors='coerce'); NoDate is NaT
to_datetime(text) == Strptime(text, Fmt_d_m_Y)

Chrono(dt) == dt.y * 10000 + dt.m * 100 + dt.d

\* df.sort_values("date"), taken as stable
RECURSIVE SortByDate(_)
SortByDate(frame) ==
    IF frame = <<>> THEN <<>>
    ELSE LET least == CHOOSE i \in DOMAIN frame :
                        /\ \A j \in DOMAIN frame :
                              Chrono(to_datetime(frame[i].date)) <= Chrono(to_datetime(frame[j].date))
                        /\ \A j \in 1..(i - 1) :
                              Chrono(to_datetime(frame[j].date)) # Chrono(to_datetime(frame[i].date))
             rest  == [k \in 1..(Len(frame) - 1) |-> IF k < least THEN frame[k] ELSE frame[k + 1]]
         IN  <<frame[least]>> \o SortByDate(rest)

Record(row, owner, bank) ==
    [date |-> Strftime(to_datetime(row.date)), owner |-> owner, bank |-> bank,
     description |-> row.description, debit |-> row.debit, credit |-> row.credit,
     balance |-> row.balance]

FinishRows(frame, owner, bank) ==
    LET dated  == SelectSeq(frame, LAMBDA r : r.date # "")
        valid  == SelectSeq(dated, LAMBDA r : to_datetime(r.date) # NoDate)
        sorted == SortByDate(valid)
    IN  [i \in 1..Len(sorted) |-> Record(sorted[i], owner, bank)]

IsSBI(f) == Upper(FileBank(f)) = "SBI"

\* line 281: the sweep pass runs for an SBI frame that has the column is_sweep
SweepApplies(f) == IsSBI(f) /\ HasColumn(f, "description")

\* The records parse_csv returns; <<>> when anything raises (lines 322-324):
\* read_csv (line 194), the sweep pass (line 155), or line 285 on a frame without a
\* date column.
\* update_sweep_balance (line 183) writes the MOD balance to a table of its own
\* and touches neither the frame nor the transactions table.
parse_csv(f) ==
    IF ~f.readable THEN <<>>
    ELSE IF SweepApplies(f)
    THEN LET swept == process_sweep_transactions(NormalizeRows(f), extract_mod_balance(f))
         IN  IF swept.ok /\ HasColumn(f, "date")
             THEN FinishRows(swept.df, FileOwner(f), FileBank(f)) ELSE <<>>
    ELSE IF HasColumn(f, "date") THEN FinishRows(NormalizeRows(f), FileOwner(f), FileBank(f))
    ELSE <<>>


(***************************************************************************)
(* Transaction Categorizer (src/src/database/db.py).                       *)
(***************************************************************************)
categories == <<
    [label |-> "Food & Dining", keywords |-> <<
        "SWIGGY", "ZOMATO", "DOMINOS", "PIZZA", "RESTAURANT", "CAFE", "COFFEE",
        "MCDONALD", "KFC", "BURGER", "FOOD", "DINING", "EATERY", "CANTEEN",
        "MESS", "TIFFIN", "SNACKS", "BAKERY", "SWEET", "JUICE">>],
    [label |-> "Transportation", keywords |-> <<
        "UBER", "OLA", "METRO", "PETROL", "DIESEL", "FUEL", "BUS", "TRAIN",
        "TAXI", "AUTO", "TRANSPORT", "PARKING", "TOLL", "FASTAG",
        "RAILWAY", "IRCTC", "FLIGHT", "AIRLINE", "AIRPORT">>],
    [label |-> "Shopping", keywords |-> <<
        "AMAZON", "FLIPKART", "MYNTRA", "AJIO", "MALL", "STORE", "SHOP",
        "PURCHASE", "RETAIL", "CLOTHING", "ELECTRONICS", "MOBILE",
        "LAPTOP", "GROCERY", "SUPERMARKET", "HYPERMARKET", "RELIANCE">>],
    [label |-> "Utilities & Bills", keywords |-> <<
        "ELECTRICITY", "WATER", "GAS", "INTERNET", "BROADBAND", "WIFI",
        "MOBILE RECHARGE", "DTH", "CABLE", "PHONE", "TELECOM", "AIRTEL",
        "JIO", "VI", "BSNL", "BILL PAYMENT", "UTILITY">>],
    [label |-> "Healthcare", keywords |-> <<
        "HOSPITAL", "PHARMACY", "DOCTOR", "MEDICAL", "CLINIC", "MEDICINE",
        "HEALTH", "INSURANCE", "APOLLO", "FORTIS", "MAX", "AIIMS">>],
    [label |-> "Entertainment", keywords |-> <<
        "MOVIE", "CINEMA", "NETFLIX", "AMAZON PRIME", "SPOTIFY", "HOTSTAR",
        "YOUTUBE", "GAME", "ENTERTAINMENT", "THEATRE", "CONCERT", "EVENT">>],
    [label |-> "Education", keywords |-> <<
        "SCHOOL", "COLLEGE", "UNIVERSITY", "COURSE", "TRAINING", "EDUCATION",
        "FEES", "TUITION", "BOOK", "LIBRARY", "COACHING", "INSTITUTE">>],
    [label |-> "Banking & Finance", keywords |-> <<
        "BANK CHARGES", "ATM", "INTEREST", "LOAN", "EMI", "CREDIT CARD",
        "FINANCE", "INVESTMENT", "MUTUAL FUND", "SIP", "INSURANCE",
        "PREMIUM", "POLICY">>],
    [label |-> "Cash Withdrawal", keywords |-> <<
        "ATM WDL", "CASH WITHDRAWAL", "ATM CASH", "WITHDRAWAL", "CASH">>],
    [label |-> "Transfers", keywords |-> <<
        "TRANSFER", "UPI", "IMPS", "NEFT", "RTGS", "FUND TRANSFER",
        "MONEY TRANSFER", "PAYTM", "GPAY", "PHONEPE", "BHIM">>],
    [label |-> "Salary & Income", keywords |-> <<
        "SALARY", "INCOME", "CREDIT INTEREST", "DIVIDEND", "BONUS",
        "REFUND", "CASHBACK", "REWARD">>] >>

\* A faulty test with all() for any(): C12 must tell it apart.
AllKeywords(text, keywords) == \A k \in DOMAIN keywords : Contains(text, keywords[k])

AnyKeyword(text, keywords) == \E k \in DOMAIN keywords : Contains(text, keywords[k])

\* re.search(a\s+b, text): a, one or more blanks, b
RECURSIVE BlanksThen(_, _)
BlanksThen(s, b) ==
    /\ Len(s) > 0
    /\ CharAt(s, 1) = " "
    /\ (StartsWith(SubSeq(s, 2, Len(s)), b) \/ BlanksThen(SubSeq(s, 2, Len(s)), b))

SearchGap(text, a, b) ==
    \E i \in 1..(Len(text) - Len(a) + 1) :
        /\ SubSeq(text, i, i + Len(a) - 1) = a
        /\ BlanksThen(SubSeq(text, i + Len(a), Len(text)), b)

\* A faulty categorizer without the last line (it returns None): C11 must tell it apart.
categorize_without_default(description) ==
    IF description = "" THEN "Other"
    ELSE LET description_upper == Upper(description)
             hits == {c \in DOMAIN categories : AnyKeyword(description_upper, categories[c].keywords)}
         IN  IF hits # {} THEN categories[CHOOSE c \in hits : \A o \in hits : c <= o].label
             ELSE IF SearchGap(description_upper, "TO", "TRANSFER")
                     \/ SearchGap(description_upper, "BY", "TRANSFER") THEN "Transfers"
             ELSE IF Contains(description_upper, "CHARGES") \/ Contains(description_upper, "FEE")
                  THEN "Banking & Finance"
             ELSE IF SearchGap(description_upper, "CREDIT", "CARD")
                     \/ SearchGap(description_upper, "CC", "PAYMENT") THEN "Banking & Finance"
             ELSE ""

\* A faulty categorizer in which the last matching category wins: C26 must tell it apart.
categorize_last_match(description) ==
    IF description = "" THEN "Other"
    ELSE LET description_upper == Upper(description)
             hits == {c \in DOMAIN categories : AnyKeyword(description_upper, categories[c].keywords)}
         IN  IF hits # {} THEN categories[CHOOSE c \in hits : \A o \in hits : c >= o].label
             ELSE IF SearchGap(description_upper, "TO", "TRANSFER")
                     \/ SearchGap(description_upper, "BY", "TRANSFER") THEN "Transfers"
             ELSE IF Contains(description_upper, "CHARGES") \/ Contains(description_upper, "FEE")
                  THEN "Banking & Finance"
             ELSE IF SearchGap(description_upper, "CREDIT", "CARD")
                     \/ SearchGap(description_upper, "CC", "PAYMENT") THEN "Banking & Finance"
             ELSE "Other"

categorize_transaction(description) ==
    IF description = "" THEN "Other"
    ELSE LET description_upper == Upper(description)
             hits == {c \in DOMAIN categories : AnyKeyword(description_upper, categories[c].keywords)}
         IN  IF hits # {} THEN categories[CHOOSE c \in hits : \A o \in hits : c <= o].label
             ELSE IF SearchGap(description_upper, "TO", "TRANSFER")
                     \/ SearchGap(description_upper, "BY", "TRANSFER") THEN "Transfers"
             ELSE IF Contains(description_upper, "CHARGES") \/ Contains(description_upper, "FEE")
                  THEN "Banking & Finance"
             ELSE IF SearchGap(description_upper, "CREDIT", "CARD")
                     \/ SearchGap(description_upper, "CC", "PAYMENT") THEN "Banking & Finance"
             ELSE "Other"

(***************************************************************************)
(* Ledger Store (src/src/database/db.py).  A table is the sequence of its  *)
(* rows in insertion order; a row's position stands for its id.            *)
(***************************************************************************)
\* categorize_transaction on the descriptions of the modelled statements, computed once
KnownDescriptions == {clean_description(r.description) : r \in AllRawRows}

CategoryOfKnown == {<<d, categorize_transaction(d)>> : d \in KnownDescriptions}

Categorized(description) ==
    IF description \in KnownDescriptions
    THEN (CHOOSE p \in CategoryOfKnown : p[1] = description)[2]
    ELSE categorize_transaction(description)

\* A faulty insert that stores the record without a category: C30 must tell it apart.
WithoutCategory(record) ==
    [date |-> record.date, owner |-> record.owner, bank |-> record.bank,
     description |-> record.description, debit |-> record.debit, credit |-> record.credit,
     balance |-> record.balance, category |-> ""]

Enhance(record) ==
    [date |-> record.date, owner |-> record.owner, bank |-> record.bank,
     description |-> record.description, debit |-> record.debit, credit |-> record.credit,
     balance |-> record.balance, category |-> Categorized(record.description)]

\* A faulty insert that replaces the stored row of the same identity key (INSERT OR
\* REPLACE) instead of appending: C20 must tell it apart.
insert_transactions_replacing(table, batch) ==
    [i \in DOMAIN table |->
        IF \E k \in DOMAIN batch :
              /\ batch[k].date = table[i].date /\ batch[k].owner = table[i].owner
              /\ batch[k].bank = table[i].bank /\ batch[k].description = table[i].description
              /\ batch[k].debit = table[i].debit /\ batch[k].credit = table[i].credit
        THEN Enhance(batch[CHOOSE k \in DOMAIN batch :
              /\ batch[k].date = table[i].date /\ batch[k].owner = table[i].owner
              /\ batch[k].bank = table[i].bank /\ batch[k].description = table[i].description
              /\ batch[k].debit = table[i].debit /\ batch[k].credit = table[i].credit])
        ELSE table[i]]
    \o [i \in 1..Len(batch) |-> Enhance(batch[i])]

\* the table after insert_transactions(batch)
insert_transactions(table, batch) ==
    table \o [i \in 1..Len(batch) |-> Enhance(batch[i])]

\* A faulty WHERE clause that also compares the balance: C3 must tell it apart.
SameIdentityAndBalance(row, record) ==
    /\ row.date = record.date
    /\ row.owner = record.owner
    /\ row.bank = record.bank
    /\ row.description = record.description
    /\ row.debit = record.debit
    /\ row.credit = record.credit
    /\ row.balance = record.balance

\* the WHERE clause of lines 451-452
SameIdentity(row, record) ==
    /\ row.date = record.date
    /\ row.owner = record.owner
    /\ row.bank = record.bank
    /\ row.description = record.description
    /\ row.debit = record.debit
    /\ row.credit = record.credit

IsDuplicate(table, record) == \E i \in DOMAIN table : SameIdentity(table[i], record)

check_duplicate_transactions(table, batch) ==
    Cardinality({i \in DOMAIN batch : IsDuplicate(table, batch[i])})

get_transaction_count(table) == Len(table)


\* purge_all_data: both tables emptied; the value returned is cursor.rowcount, the
\* row count of the statement executed last (DELETE FROM sweep_adjustments).
purge_all_data(table, adjustments) ==
    [transactions |-> <<>>, sweep_adjustments |-> <<>>, rowcount |-> Len(adjustments)]

\* A faulty SELECT that also takes the rows categorized "Other": C13 must tell it apart.
UncategorizedOrOther(row) == row.category \in {"", "Other"}

\* the WHERE clause of line 470
Uncategorized(row) == row.category = ""

update_categories_for_existing_transactions(table) ==
    [transactions |-> [i \in DOMAIN table |->
                          IF Uncategorized(table[i])
                          THEN [table[i] EXCEPT !.category = categorize_transaction(table[i].description)]
                          ELSE table[i]],
     updated_count |-> Cardinality({i \in DOMAIN table : Uncategorized(table[i])})]

\* A faulty insert that overwrites the stored adjustment of the same date and owner:
\* C21 must tell it apart.
add_sweep_balance_adjustment_replacing(adjustments, date, owner, amount, description) ==
    IF \E i \in DOMAIN adjustments : adjustments[i].date = date /\ adjustments[i].owner = owner
    THEN [i \in DOMAIN adjustments |->
             IF adjustments[i].date = date /\ adjustments[i].owner = owner
             THEN [date |-> date, owner |-> owner, amount |-> amount, description |-> description]
             ELSE adjustments[i]]
    ELSE Append(adjustments, [date |-> date, owner |-> owner, amount |-> amount,
                              description |-> description])

add_sweep_balance_adjustment(adjustments, date, owner, amount, description) ==
    Append(adjustments, [date |-> date, owner |-> owner, amount |-> amount,
                         description |-> description])

\* The place of a date text in SQLite's order of TEXT values (BINARY collation).
\* The dates of one column are all written day-month-year or all year-month-day,
\* in equal width with the dashes at the same places, so that the texts compare
\* as the numbers their digits spell.
TextRank(text) == NatOf(Replace(text, "-", ""))

\* the rows of a table with their ids, in the order of an ORDER BY on a text column
\* and then id: by[i] is the text of the i-th row
RECURSIVE InTextOrder(_, _)
InTextOrder(ids, by) ==
    IF ids = {} THEN <<>>
    ELSE LET first == CHOOSE i \in ids :
                        \A o \in ids : \/ TextRank(by[i]) < TextRank(by[o])
                                       \/ TextRank(by[i]) = TextRank(by[o]) /\ i <= o
         IN  <<first>> \o InTextOrder(ids \ {first}, by)

\* fetch_all, lines 143-150: SELECT * FROM transactions ORDER BY date, id
fetch_all(table) ==
    LET order == InTextOrder(DOMAIN table, [i \in DOMAIN table |-> table[i].date])
    IN  [k \in DOMAIN order |->
            [id |-> order[k], date |-> table[order[k]].date, owner |-> table[order[k]].owner,
             bank |-> table[order[k]].bank, description |-> table[order[k]].description,
             debit |-> table[order[k]].debit, credit |-> table[order[k]].credit,
             balance |-> table[order[k]].balance, category |-> table[order[k]].category]]

\* get_sweep_balance_adjustments, lines 163-171: SELECT * ... ORDER BY date
get_sweep_balance_adjustments(adjustments) ==
    LET order == InTextOrder(DOMAIN adjustments,
                             [i \in DOMAIN adjustments |-> adjustments[i].date])
    IN  [k \in DOMAIN order |-> adjustments[order[k]]]

\* get_account_balances, lines 181-198: the rows whose date is the MAX(date) of
\* their account, MAX taken on the date texts; row is the id of the table row
get_account_balances(table) ==
    {[row |-> i, owner |-> table[i].owner, bank |-> table[i].bank,
      balance |-> table[i].balance, date |-> table[i].date] :
        i \in {j \in DOMAIN table :
                  \A o \in DOMAIN table :
                      (table[o].owner = table[j].owner /\ table[o].bank = table[j].bank)
                          => TextRank(table[o].date) <= TextRank(table[j].date)}}

(***************************************************************************)
(* The view every run of src/app.py builds of the ledger (lines 132-152).  *)
(***************************************************************************)
\* A faulty mask that takes only the rows dated after the adjustment: C27 must
\* tell it apart.
AdjustmentMaskStrict(row, adj) ==
    /\ Chrono(row.date) > Chrono(Strptime(adj.date, Fmt_Y_m_d))
    /\ row.owner = adj.owner

\* line 151: the rows an adjustment applies to
AdjustmentMask(row, adj) ==
    /\ Chrono(row.date) >= Chrono(Strptime(adj.date, Fmt_Y_m_d))
    /\ row.owner = adj.owner

\* lines 150-152: the loop over the adjustments
RECURSIVE ApplyAdjustments(_, _)
ApplyAdjustments(frame, adjs) ==
    IF adjs = <<>> THEN frame
    ELSE ApplyAdjustments(
            [i \in DOMAIN frame |->
                IF AdjustmentMask(frame[i], Head(adjs))
                THEN [frame[i] EXCEPT !.balance = @ + Head(adjs).amount]
                ELSE frame[i]],
            Tail(adjs))

\* lines 132-152: the frame the tabs and the filters work on
DashboardFrame(table, adjustments) ==
    LET fetched == fetch_all(table)
        dated   == [k \in DOMAIN fetched |->
                       [fetched[k] EXCEPT !.date = to_datetime(fetched[k].date)]]
        valid   == SelectSeq(dated, LAMBDA r : r.date # NoDate)
    IN  ApplyAdjustments(valid, get_sweep_balance_adjustments(adjustments))

(***************************************************************************)
(* Transfer Detector: get_inter_person_transfers.  The result set is the   *)
(* set of its rows; from_row and to_row name the joined table rows, so     *)
(* that two equal result rows from different table rows stay two.          *)
(***************************************************************************)
\* SQLite LIKE '%pat%': ASCII case-insensitive containment
Like(text, pat) == Contains(Upper(text), pat)

\* the ON clause of lines 218-222
JoinOn(t1, t2) ==
    /\ t1.date = t2.date
    /\ t1.debit = t2.credit
    /\ (t1.owner # t2.owner \/ t1.bank # t2.bank)
    /\ t1.debit > 0

\* A faulty CASE with the two labels exchanged: C8 must tell it apart.
ExactTypeExchanged(t1, t2) ==
    IF t1.owner = t2.owner THEN "Inter-Person Transfer" ELSE "Inter-Bank (Same Person)"

\* the CASE of lines 213-216
ExactType(t1, t2) ==
    IF t1.owner = t2.owner THEN "Inter-Bank (Same Person)" ELSE "Inter-Person Transfer"

ExactRecord(table, i, j) ==
    [from_row |-> i, to_row |-> j,
     date |-> table[i].date,
     from_owner |-> table[i].owner, from_bank |-> table[i].bank,
     to_owner |-> table[j].owner, to_bank |-> table[j].bank,
     amount |-> table[i].debit,
     from_description |-> table[i].description,
     to_description |-> table[j].description,
     transfer_type |-> ExactType(table[i], table[j])]

ExactMatches(table) ==
    {ExactRecord(table, i, j) : <<i, j>> \in
        {p \in (DOMAIN table) \X (DOMAIN table) : JoinOn(table[p[1]], table[p[2]])}}

\* the WHERE clause of lines 271-276
HeuristicWhere(t) ==
    /\ \/ Like(t.description, "TRANSFER")
       \/ Like(t.description, "UPI")
       \/ Like(t.description, "IMPS")
       \/ Like(t.description, "NEFT")
       \/ Like(t.description, "RTGS")
    /\ (t.debit > 0 \/ t.credit > 0)

HeuristicToOwner(t) ==
    LET d == t.description
    IN  IF Like(d, "TO TRANSFER") /\ Like(d, "HDFC") THEN t.owner
        ELSE IF Like(d, "TO TRANSFER") /\ Like(d, "SBI") THEN t.owner
        ELSE IF Like(d, "BY TRANSFER") /\ Like(d, "HDFC") THEN t.owner
        ELSE IF Like(d, "BY TRANSFER") /\ Like(d, "SBI") THEN t.owner
        ELSE IF Like(d, "UPI") /\ Like(d, "/HDFC/") THEN "External Person"
        ELSE IF Like(d, "UPI") /\ Like(d, "/SBI/") THEN "External Person"
        ELSE IF Like(d, "IMPS") THEN "External Person"
        ELSE IF Like(d, "NEFT") /\ Like(d, "PUNB") THEN "External Person"
        ELSE IF Like(d, "NEFT") /\ Like(d, "YESB") THEN "External Person"
        ELSE "Unknown Recipient"

HeuristicToBank(t) ==
    LET d == t.description
    IN  IF Like(d, "HDFC") THEN "HDFC"
        ELSE IF Like(d, "SBI") THEN "SBI"
        ELSE IF Like(d, "PUNB") THEN "Punjab National Bank"
        ELSE IF Like(d, "YESB") THEN "Yes Bank"
        ELSE IF Like(d, "ICICI") THEN "ICICI"
        ELSE IF Like(d, "AXIS") THEN "Axis Bank"
        ELSE "Unknown Bank"

HeuristicType(t) ==
    LET d == t.description
    IN  IF Like(d, "TO TRANSFER") \/ Like(d, "BY TRANSFER")
        THEN IF t.owner = (IF Like(d, "HDFC") THEN t.owner
                           ELSE IF Like(d, "SBI") THEN t.owner
                           ELSE "External Person")
             THEN "Inter-Bank (Same Person)"
             ELSE "Inter-Person Transfer"
        ELSE "Inter-Bank Transfer"

HeuristicRecord(table, i) ==
    [from_row |-> i, to_row |-> 0,
     date |-> table[i].date,
     from_owner |-> table[i].owner, from_bank |-> table[i].bank,
     to_owner |-> HeuristicToOwner(table[i]), to_bank |-> HeuristicToBank(table[i]),
     amount |-> IF table[i].debit > 0 THEN table[i].debit ELSE table[i].credit,
     from_description |-> table[i].description,
     to_description |-> "",
     transfer_type |-> HeuristicType(table[i])]

HeuristicMatches(table) ==
    {HeuristicRecord(table, i) : i \in {k \in DOMAIN table : HeuristicWhere(table[k])}}

\* A faulty detector that always adds the heuristic rows: C9 must tell it apart.
BothPhases(table) == ExactMatches(table) \cup HeuristicMatches(table)

\* lines 224-226 and 278-281: the heuristic query runs only when the join is empty
get_inter_person_transfers(table) ==
    IF ExactMatches(table) = {} THEN HeuristicMatches(table) ELSE ExactMatches(table)


(***************************************************************************)
(* State.                                                                  *)
(*   One run of parse_csv: file, pc, df, idx, sweep_balance,               *)
(*   balance_adjustment, records.                                          *)
(*   The store finance.db: transactions, sweep_adjustments.                *)
(*   The Streamlit session: session; ret is what the last handler or call  *)
(*   got back.                                                             *)
(*   A call of one of the normalizer's or categorizer's functions: call,   *)
(*   the function's name and its arguments.                                *)
(*   Ingestions running side by side on the store (one per browser         *)
(*   session): ingestions, for each its place in the loop body of lines    *)
(*   72-81 of src/app.py, its records and its duplicates.                  *)
(***************************************************************************)
VARIABLES file, pc, df, idx, sweep_balance, balance_adjustment, records,
          transactions, sweep_adjustments, session, ret, call, ingestions

parseVars == <<file, pc, df, idx, sweep_balance, balance_adjustment, records>>
storeVars == <<transactions, sweep_adjustments>>
appVars   == <<session, ret>>
vars      == <<file, pc, df, idx, sweep_balance, balance_adjustment, records,
               transactions, sweep_adjustments, session, ret, call, ingestions>>

NoFile == StatementFile("", "", "", <<>>)
NoRet  == [op |-> "none"]
NoCall == [fn |-> "", args |-> <<>>]

StoreInit ==
    /\ transactions = <<>>
    /\ sweep_adjustments = <<>>
    /\ session = [proceed_with_load |-> FALSE, confirm_purge |-> FALSE]
    /\ ret = NoRet
    /\ call = NoCall
    /\ ingestions = <<>>

ParseIdle ==
    /\ file = NoFile
    /\ pc = "idle"
    /\ df = <<>>
    /\ idx = 0
    /\ sweep_balance = 0
    /\ balance_adjustment = 0
    /\ records = <<>>

(***************************************************************************)
(* SpecParse: parse_csv on one statement file, the sweep loop row by row.  *)
(***************************************************************************)
ParseFiles ==
    {StatementFile("Bob", b, IF b = "SBI" THEN "11,21,000.00" ELSE "", rows) :
        b \in ParseBanks, rows \in SeqsUpTo(ParsePool, MaxRows)}

InitParse ==
    /\ StoreInit
    /\ file \in ParseFiles \cup ProfileFiles \cup {Unreadable}
    /\ pc = "start"
    /\ df = <<>>
    /\ idx = 0
    /\ sweep_balance = 0
    /\ balance_adjustment = 0
    /\ records = <<>>

\* lines 164-282, up to the call of process_sweep_transactions; the handler of
\* lines 322-324 when read_csv raises
ReadAndNormalize ==
    /\ pc = "start"
    /\ IF ~file.readable
       THEN /\ pc' = "raised"
            /\ records' = <<>>
            /\ UNCHANGED <<df, idx, sweep_balance>>
       ELSE /\ df' = NormalizeRows(file)
            /\ UNCHANGED records
            /\ IF SweepApplies(file) /\ file.rows # <<>>
               THEN /\ pc' = "sweep"
                    /\ idx' = 1
                    /\ sweep_balance' = extract_mod_balance(file)
               ELSE /\ pc' = "finish"
                    /\ UNCHANGED <<idx, sweep_balance>>
    /\ UNCHANGED <<file, balance_adjustment, storeVars, appVars, call, ingestions>>

\* one iteration of the loop of lines 131-152
SweepRowStep ==
    /\ pc = "sweep"
    /\ idx <= Len(df)
    /\ LET st == SweepRow([df |-> df, idx |-> idx, sweep_balance |-> sweep_balance,
                           balance_adjustment |-> balance_adjustment])
       IN  /\ df' = st.df
           /\ idx' = st.idx
           /\ sweep_balance' = st.sweep_balance
           /\ balance_adjustment' = st.balance_adjustment
    /\ UNCHANGED <<file, pc, records, storeVars, appVars, call, ingestions>>

\* lines 154-160, and the handler of lines 322-324 when line 155 raises
SweepReturn ==
    /\ pc = "sweep"
    /\ idx > Len(df)
    /\ IF HasRemoveColumn(df)
       THEN /\ df' = SweepFilter(df)
            /\ pc' = "finish"
            /\ UNCHANGED records
       ELSE /\ pc' = "raised"
            /\ records' = <<>>
            /\ UNCHANGED df
    /\ UNCHANGED <<file, idx, sweep_balance, balance_adjustment, storeVars, appVars, call, ingestions>>

\* lines 284-320, and the handler of lines 322-324 when line 285 raises for want
\* of a date column
FinishParse ==
    /\ pc = "finish"
    /\ IF HasColumn(file, "date")
       THEN /\ records' = FinishRows(df, FileOwner(file), FileBank(file))
            /\ pc' = "done"
       ELSE /\ records' = <<>>
            /\ pc' = "raised"
    /\ UNCHANGED <<file, df, idx, sweep_balance, balance_adjustment, storeVars, appVars, call, ingestions>>

NextParse == ReadAndNormalize \/ SweepRowStep \/ SweepReturn \/ FinishParse

SpecParse == InitParse /\ [][NextParse]_vars

\* The stepped run and the function parse_csv agree.
ParseAgrees == pc \in {"done", "raised"} => records = parse_csv(file)


(***************************************************************************)
(* Sweep reconciliation: claims C4, C5, C6 (SpecParse).                    *)
(***************************************************************************)
\* The frame as it entered the sweep pass.
Original == NormalizeRows(file)

SweepAmount(row) == IF row.debit > 0 THEN row.debit ELSE row.credit

\* Money a sweep row took out of the account (to the sub-account: +, back from it: -).
AmountRemoved(row) ==
    IF Contains(Upper(row.description), "DEBIT SWEEP") THEN SweepAmount(row)
    ELSE IF Contains(Upper(row.description), "TRANSFER CREDIT-SWEEP") THEN 0 - SweepAmount(row)
    ELSE IF row.debit > 0 THEN row.debit ELSE 0 - row.credit

\* The delta the loop accumulates for a sweep row (lines 137-144).
DeltaOf(row) ==
    IF Contains(Upper(row.description), "DEBIT SWEEP") THEN 0 - SweepAmount(row)
    ELSE IF Contains(Upper(row.description), "TRANSFER CREDIT-SWEEP") THEN SweepAmount(row)
    ELSE 0

RemovedSum == SeqSum([i \in DOMAIN Original |->
                        IF Original[i].is_sweep THEN AmountRemoved(Original[i]) ELSE 0])

AppliedSum == SeqSum([i \in DOMAIN df |-> df[i].balance - Original[df[i].src].balance])

SweepFinished == pc = "finish" /\ IsSBI(file)

\* C4: when process_sweep_transactions has finished, the amounts removed with the
\* sweep rows and the adjustments applied to the surviving rows' balances sum to
\* zero: no delta is left pending.
C4_BalanceNeutral == SweepFinished => RemovedSum + AppliedSum = 0

PriorDelta(i) == SeqSum([j \in 1..(i - 1) |->
                           IF Original[j].is_sweep THEN DeltaOf(Original[j]) ELSE 0])

\* C5: every surviving row that follows sweep rows carries the cumulative delta of
\* all the sweep rows before it, not only the first surviving row after a sweep row.
C5_AllLaterRowsCorrected ==
    SweepFinished =>
        \A i \in DOMAIN df :
            df[i].balance = Original[df[i].src].balance + PriorDelta(df[i].src)

DateParsable(text, bank) ==
    /\ text # ""
    /\ \E k \in DOMAIN date_formats(bank) : Strptime(Strip(text), date_formats(bank)[k]) # NoDate

\* C6: for an SBI file, no record returned by parse_csv comes from a row matching the
\* sweep-transfer pattern, and every row that does not match it and has a parsable
\* date is among the records.
C6_SweepRowsOnlyAreDropped ==
    (pc \in {"done", "raised"} /\ IsSBI(file)) =>
        /\ \A k \in DOMAIN records : ~is_sweep_transaction(records[k].description)
        /\ \A i \in DOMAIN Original :
              (~Original[i].is_sweep /\ DateParsable(file.rows[i].date, FileBank(file))) =>
                  \E k \in DOMAIN records :
                      /\ records[k].date = Original[i].date
                      /\ records[k].description = Original[i].description
                      /\ records[k].debit = Original[i].debit
                      /\ records[k].credit = Original[i].credit


(***************************************************************************)
(* Rows that cannot be parsed: claim C16 (SpecParse).                      *)
(***************************************************************************)
\* the date cell of body row i
RowDate(i) == Cell(file.rows[i], ResolvedColumns(file), "date")

\* row i is a sweep row, which the sweep pass takes out of an SBI statement
SweepRemoved(i) == SweepApplies(file) /\ Original[i].is_sweep

\* neither parse_date nor line 291 reads the text as a date
DateUnreadable(text, bank) ==
    \/ text = ""
    \/ ~DateParsable(text, bank) /\ to_datetime(Strip(text)) = NoDate

\* cells that are no number
GarbageCells == {"abc", "n/a"}

ExpectedAmount(text) == IF text \in GarbageCells THEN 0 ELSE safe_float(text)

\* record k is body row i: its date, its description, its amounts
KeptAs(k, i) ==
    LET cols == ResolvedColumns(file)
    IN  /\ records[k].date = Original[i].date
        /\ records[k].description = Original[i].description
        /\ records[k].debit = ExpectedAmount(Cell(file.rows[i], cols, "debit"))
        /\ records[k].credit = ExpectedAmount(Cell(file.rows[i], cols, "credit"))
        /\ SweepApplies(file)
              \/ records[k].balance = ExpectedAmount(Cell(file.rows[i], cols, "balance"))

\* C16: a row with a blank or unparsable date is not among the records, and that is
\* all it costs: every other row of the file with a parsable date (sweep rows of an
\* SBI statement apart) is among the records, an unparsable amount read as 0.
C16_BadRowsDroppedOthersKept ==
    (pc \in {"done", "raised"} /\ file.readable /\ HasColumn(file, "date")) =>
        /\ \A i \in DOMAIN file.rows :
              (DateParsable(RowDate(i), FileBank(file)) /\ ~SweepRemoved(i)) =>
                  \E k \in DOMAIN records : KeptAs(k, i)
        /\ Len(records) <= Cardinality({i \in DOMAIN file.rows :
                                            ~DateUnreadable(RowDate(i), FileBank(file))})

(***************************************************************************)
(* SpecProfile: parse_csv, stepped as in SpecParse, on the files of data/   *)
(* and on exports of banks without a profile (claim C18).                  *)
(***************************************************************************)
InitProfile ==
    /\ StoreInit
    /\ file \in ProfileFiles \cup DataFiles
    /\ pc = "start"
    /\ df = <<>>
    /\ idx = 0
    /\ sweep_balance = 0
    /\ balance_adjustment = 0
    /\ records = <<>>

SpecProfile == InitProfile /\ [][NextParse]_vars

KnownBanks == {"SBI", "HDFC"}

\* the common formats, lines 39-46
CommonFormats == <<Fmt_d_b_y, Fmt_d_m_Y, Fmt_d_m_Y_sl, Fmt_Y_m_d, Fmt_d_m_y, Fmt_d_m_y_sl>>

CommonParsable(text) ==
    text # "" /\ \E k \in DOMAIN CommonFormats : Strptime(Strip(text), CommonFormats[k]) # NoDate

\* the generic synonym lists, lines 225-244
GenericTitles ==
    [date        |-> {"date", "txn date", "transaction date", "value date",
                      "posting date", "effective date", "trans date"},
     description |-> {"description", "narration", "remarks", "transaction details",
                      "particulars", "transaction description", "details"},
     debit       |-> {"debit", "withdrawal amt.", "withdrawal amount", "debit amount",
                      "dr amount", "withdrawal", "paid out", "debit amt"},
     credit      |-> {"credit", "deposit amt.", "deposit amount", "credit amount",
                      "cr amount", "deposit", "paid in", "credit amt"},
     balance     |-> {"balance", "balance amt.", "available balance", "closing balance",
                      "running balance", "bal amount", "balance amount"}]

\* the file's table starts at its first line, each column under a generic title
GenericLayout(f) ==
    /\ f.preamble = 0
    /\ \A s \in Slots : ToLower(Strip(f.header[s])) \in GenericTitles[s]

UnknownBank(f) == Upper(FileBank(f)) \notin KnownBanks

\* C18: a readable file of a bank without a profile, a file name without underscore
\* included, is parsed, not rejected: with no line skipped and its columns found by
\* the generic titles, every row whose date one of the common formats reads is among
\* the records, under the bank taken from the name ("Unknown" without underscore).
C18_UnknownBankGenericProfile ==
    (pc \in {"done", "raised"} /\ file.readable /\ UnknownBank(file) /\ GenericLayout(file)) =>
        /\ pc = "done"
        /\ \A i \in DOMAIN file.rows :
              CommonParsable(file.rows[i].date) =>
                  \E k \in DOMAIN records :
                      /\ records[k].date = TryFormats(Strip(file.rows[i].date), CommonFormats)
                      /\ records[k].description = clean_description(file.rows[i].description)
                      /\ records[k].debit = safe_float(file.rows[i].debit)
                      /\ records[k].credit = safe_float(file.rows[i].credit)
                      /\ records[k].balance = safe_float(file.rows[i].balance)
        /\ \A k \in DOMAIN records :
              records[k].bank = IF Contains(file.name, "_") THEN FileBank(file) ELSE "Unknown"

\* a file named without underscore, its columns under synonyms, has been parsed
C18_Witness ==
    /\ pc = "done"
    /\ ~Contains(file.name, "_")
    /\ ToLower(Strip(file.header.date)) = "value date"
    /\ Len(records) = 2
    /\ \A k \in DOMAIN records : records[k].bank = "Unknown"


(***************************************************************************)
(* SpecSweep: parse_csv on one SBI statement whose rows come in any order, *)
(* the sweep loop row by row (claims C23, C24, C25).                       *)
(***************************************************************************)
SweepPool == {SweepTo, SweepFrom, CreditNeft, UpiDebit, Salary}

SweepFiles ==
    {StatementFile("Bob", "SBI", "11,21,000.00", rows) :
        rows \in SeqsUpTo(SweepPool, MaxSweepRows)}

InitSweep ==
    /\ StoreInit
    /\ file \in SweepFiles
    /\ pc = "start"
    /\ df = <<>>
    /\ idx = 0
    /\ sweep_balance = 0
    /\ balance_adjustment = 0
    /\ records = <<>>

SpecSweep == InitSweep /\ [][NextParse]_vars

\* the step is one iteration of the sweep loop, on the row at idx
VisitsRow == pc = "sweep" /\ idx <= Len(df) /\ idx' = idx + 1

\* C23: a non-sweep row reached with a non-zero pending delta has exactly that
\* delta added to its balance, nothing else of it changes, and the pending delta
\* is zero afterwards; reached with a zero pending delta the row stays as it is.
C23_PendingDeltaAppliedOnce ==
    [][(VisitsRow /\ ~df[idx].is_sweep) =>
          /\ df'[idx] = [df[idx] EXCEPT !.balance = df[idx].balance + balance_adjustment]
          /\ balance_adjustment' = 0
          /\ balance_adjustment = 0 => df'[idx] = df[idx]
          /\ \A i \in DOMAIN df : i # idx => df'[i] = df[i]]_vars

\* the loop has just written a pending delta to a surviving row
C23_Witness ==
    /\ pc = "sweep"
    /\ idx > 2
    /\ df[idx - 2].is_sweep
    /\ ~df[idx - 1].is_sweep
    /\ df[idx - 1].balance # Original[idx - 1].balance
    /\ balance_adjustment = 0

\* C24: a row that matches the sweep-transfer pattern is marked for removal and
\* its amount (debit if positive, else credit) goes into the pending delta, minus
\* for money moved to the sub-account (a debit), plus for money moved back (a
\* credit), and into the running sub-account balance with the opposite sign.
C24_RemovedRowsAccumulated ==
    [][(VisitsRow /\ df[idx].is_sweep) =>
          /\ df'[idx].remove
          /\ IF df[idx].debit > 0
             THEN /\ balance_adjustment' = balance_adjustment - SweepAmount(df[idx])
                  /\ sweep_balance' = sweep_balance + SweepAmount(df[idx])
             ELSE /\ balance_adjustment' = balance_adjustment + SweepAmount(df[idx])
                  /\ sweep_balance' = sweep_balance - SweepAmount(df[idx])]_vars

\* the sweep rows whose delta the surviving row at file position s has taken: the
\* run of sweep rows visited just before it
TakenBy(s) ==
    {j \in 1..(s - 1) :
        /\ \A k \in j..(s - 1) : Original[k].is_sweep
        /\ DeltaOf(Original[j]) # 0}

\* C25: when the sweep pass has finished, a surviving row carries the delta of a
\* sweep row only if its date is not earlier than the sweep row's date.
C25_DeltaOnlyToLaterRows ==
    SweepFinished =>
        \A i \in DOMAIN df :
            df[i].balance # Original[df[i].src].balance =>
                \A j \in TakenBy(df[i].src) :
                    Chrono(to_datetime(Original[j].date))
                        <= Chrono(to_datetime(Original[df[i].src].date))


(***************************************************************************)
(* Spec: the handlers of src/app.py on the store.  data/ holds statement   *)
(* files out of DataFiles; a click on "Load CSV Data" sees some listing of *)
(* them (glob.glob), possibly the same statement under two file names.     *)
(***************************************************************************)
AdjDates   == {"2023-04-02"}
AdjOwners  == {"Alice", "Bob"}
AdjAmounts == {Rupees(1000)}

\* parse_csv on the files of data/, computed once
ParsedDataFiles == {<<f, <<>> \o parse_csv(f)>> : f \in DataFiles \cup {AliceBoth}}

ParsedFile(f) == (CHOOSE p \in ParsedDataFiles : p[1] = f)[2]

\* lines 73-80, on acc = [table, loaded_count, skipped_count]: the records of one
\* file are checked for duplicates and inserted
LoadRecords(acc, recs) ==
    IF recs # <<>>
    THEN [table         |-> insert_transactions(acc.table, recs),
          loaded_count  |-> acc.loaded_count + 1,
          skipped_count |-> IF check_duplicate_transactions(acc.table, recs) > 0
                            THEN acc.skipped_count
                                    + check_duplicate_transactions(acc.table, recs)
                            ELSE acc.skipped_count]
    ELSE acc

\* one pass of the loop of lines 70-82
LoadFile(acc, f) == LoadRecords(acc, ParsedFile(f))

\* A faulty loop that ends at the first file without records: C17 must tell it apart.
LoadLoopAborting(acc, files) ==
    LET empty == {i \in DOMAIN files : ParsedFile(files[i]) = <<>>}
        stop  == IF empty = {} THEN Len(files)
                 ELSE (CHOOSE i \in empty : \A o \in empty : i <= o) - 1
        after[i \in 0..Len(files)] ==
            IF i = 0 THEN acc ELSE LoadFile(after[i - 1], files[i])
    IN  after[stop]

\* the loop of lines 70-82: after[i] is the accumulator after the i-th file
LoadLoop(acc, files) ==
    LET after[i \in 0..Len(files)] ==
            IF i = 0 THEN acc ELSE LoadFile(after[i - 1], files[i])
    IN  after[Len(files)]

\* lines 84-92: the ledger and the counts the handler reports
FinishLoad(files, finished) ==
    /\ Len(finished.table) <= MaxLedger
    /\ transactions' = finished.table
    /\ session' = [session EXCEPT !.proceed_with_load = FALSE]
    /\ ret' = [op |-> "load", files |-> files,
               loaded_count |-> finished.loaded_count,
               skipped_count |-> finished.skipped_count]
    /\ UNCHANGED sweep_adjustments

\* "Load CSV Data", lines 52-95
LoadCSVData(files) ==
    IF get_transaction_count(transactions) > 0 /\ ~session.proceed_with_load
    THEN /\ ret' = [op |-> "load_warning"]
         /\ UNCHANGED <<transactions, sweep_adjustments, session>>
    ELSE FinishLoad(files, LoadLoop([table |-> transactions, loaded_count |-> 0,
                                     skipped_count |-> 0], files))

\* "Proceed Anyway", lines 60-62
ProceedAnyway ==
    /\ ret.op = "load_warning"
    /\ session' = [session EXCEPT !.proceed_with_load = TRUE]
    /\ ret' = [op |-> "proceed"]
    /\ UNCHANGED <<transactions, sweep_adjustments>>

\* "Purge Data", lines 98-107
PurgeData ==
    IF session.confirm_purge
    THEN LET purged == purge_all_data(transactions, sweep_adjustments)
         IN  /\ transactions' = purged.transactions
             /\ sweep_adjustments' = purged.sweep_adjustments
             /\ session' = [session EXCEPT !.confirm_purge = FALSE]
             /\ ret' = [op |-> "purge", deleted_count |-> purged.rowcount]
    ELSE /\ session' = [session EXCEPT !.confirm_purge = TRUE]
         /\ ret' = [op |-> "purge_warning"]
         /\ UNCHANGED <<transactions, sweep_adjustments>>

\* "Update Categories", lines 111-114
UpdateCategories ==
    LET updated == update_categories_for_existing_transactions(transactions)
    IN  /\ transactions' = updated.transactions
        /\ ret' = [op |-> "update_categories", updated_count |-> updated.updated_count]
        /\ UNCHANGED <<sweep_adjustments, session>>

\* "Add Adjustment", lines 123-126
AddAdjustmentClicked(date, owner, amount) ==
    /\ sweep_adjustments' = add_sweep_balance_adjustment(sweep_adjustments, date, owner, amount,
                                                         "Sweep balance adjustment")
    /\ ret' = [op |-> "add_adjustment"]
    /\ UNCHANGED <<transactions, session>>

AddAdjustment(date, owner, amount) ==
    /\ Len(sweep_adjustments) < MaxAdjustments
    /\ AddAdjustmentClicked(date, owner, amount)

\* a run of the script with the ledger not empty, lines 132-152
ViewDashboard ==
    /\ transactions # <<>>
    /\ ret' = [op |-> "dashboard", value |-> DashboardFrame(transactions, sweep_adjustments)]
    /\ UNCHANGED <<transactions, sweep_adjustments, session>>

\* the Accounts tab, line 573
ViewAccounts ==
    /\ ret' = [op |-> "accounts", value |-> get_account_balances(transactions)]
    /\ UNCHANGED <<transactions, sweep_adjustments, session>>

\* A faulty Transfers tab that keeps its first result in the session and shows it
\* from then on: C10 must tell it apart.
ViewTransfersCached ==
    /\ transactions # <<>>
    /\ IF "transfers" \in DOMAIN session
       THEN /\ ret' = [op |-> "transfers", value |-> session.transfers]
            /\ UNCHANGED session
       ELSE /\ ret' = [op |-> "transfers", value |-> get_inter_person_transfers(transactions)]
            /\ session' = [k \in DOMAIN session \cup {"transfers"} |->
                              IF k = "transfers" THEN get_inter_person_transfers(transactions)
                              ELSE session[k]]
    /\ UNCHANGED <<transactions, sweep_adjustments>>

\* the Transfers tab, line 426
ViewTransfers ==
    /\ transactions # <<>>
    /\ ret' = [op |-> "transfers", value |-> get_inter_person_transfers(transactions)]
    /\ UNCHANGED <<transactions, sweep_adjustments, session>>

Init == StoreInit /\ ParseIdle

Next ==
    \/ \E files \in Listings : LoadCSVData(files) /\ UNCHANGED <<parseVars, call, ingestions>>
    \/ ProceedAnyway /\ UNCHANGED <<parseVars, call, ingestions>>
    \/ PurgeData /\ UNCHANGED <<parseVars, call, ingestions>>
    \/ UpdateCategories /\ UNCHANGED <<parseVars, call, ingestions>>
    \/ \E d \in AdjDates, o \in AdjOwners, a \in AdjAmounts :
          AddAdjustment(d, o, a) /\ UNCHANGED <<parseVars, call, ingestions>>
    \/ ViewTransfers /\ UNCHANGED <<parseVars, call, ingestions>>

Spec == Init /\ [][Next]_vars


(***************************************************************************)
(* Ingestion: claims C1, C2 (Spec).                                        *)
(***************************************************************************)
\* the step is a run of the load loop (lines 70-82) on the listing files
Loads(files) == ret'.op = "load" /\ ret'.files = files

\* the loop's ledger and counters when it comes to the last file of the listing
BeforeLast(files) ==
    LoadLoop([table |-> transactions, loaded_count |-> 0, skipped_count |-> 0],
             SubSeq(files, 1, Len(files) - 1))

LastOf(files) == files[Len(files)]

\* the file has been ingested: each of its records is in the table, by its identity key
IngestedIn(table, f) ==
    /\ ParsedFile(f) # <<>>
    /\ \A k \in DOMAIN ParsedFile(f) : IsDuplicate(table, ParsedFile(f)[k])

\* C1: when the load loop comes to a file that has been ingested already, loading it
\* again leaves the number of ledger records unchanged.
C1_ReingestInsertsNothing ==
    [][\A files \in Listings :
          (Loads(files) /\ IngestedIn(BeforeLast(files).table, LastOf(files))) =>
              Len(transactions') = Len(BeforeLast(files).table)]_vars

Matching(table, f) == {k \in DOMAIN ParsedFile(f) : IsDuplicate(table, ParsedFile(f)[k])}

NotMatching(table, f) == SelectSeq(ParsedFile(f), LAMBDA r : ~IsDuplicate(table, r))

\* C2: when the candidates of a file are ingested, those whose identity key matches
\* a ledger record are counted and not inserted: the ledger gains exactly the
\* candidates that did not match, and the count is what the loop reports.
C2_MatchesCountedNotInserted ==
    [][\A files \in Listings :
          Loads(files) =>
              /\ transactions' = insert_transactions(BeforeLast(files).table,
                                    NotMatching(BeforeLast(files).table, LastOf(files)))
              /\ ret'.skipped_count = BeforeLast(files).skipped_count
                    + Cardinality(Matching(BeforeLast(files).table, LastOf(files)))]_vars

(***************************************************************************)
(* Transfer detection as a handler: claim C10 (Spec).                      *)
(***************************************************************************)
\* C10: a call of get_inter_person_transfers leaves both tables as they are, and
\* what it returns is the detection on the ledger as it is at the call, whatever was
\* returned by earlier calls.
C10_DetectionReadOnlyUncached ==
    [][ret'.op = "transfers" =>
          /\ transactions' = transactions
          /\ sweep_adjustments' = sweep_adjustments
          /\ ret'.value = get_inter_person_transfers(transactions)]_vars

\* a call on a ledger built by two ingestions has returned the pair they form
C10_Witness ==
    /\ ret.op = "transfers"
    /\ Len(transactions) >= 2
    /\ \E r \in ret.value : r.to_row # 0


(***************************************************************************)
(* SpecDup: check_duplicate_transactions on a ledger and a batch of        *)
(* candidates (claim C3).  The ledger rows are the base record, the same   *)
(* record stored before the category column existed and with another      *)
(* balance, and a record of another date; the candidates are the base      *)
(* record and one variant of it per field.                                 *)
(***************************************************************************)
Candidate(date, owner, bank, description, debit, credit, balance) ==
    [date |-> date, owner |-> owner, bank |-> bank, description |-> description,
     debit |-> debit, credit |-> credit, balance |-> balance]

BaseCandidate ==
    Candidate("01-04-2023", "Alice", "HDFC", "UPI/YESB/1234/JOHN",
              Rupees(5000), 0, Rupees(10000))

DupCandidates ==
    {BaseCandidate,
     [BaseCandidate EXCEPT !.balance = Rupees(9000)],
     [BaseCandidate EXCEPT !.date = "02-04-2023"],
     [BaseCandidate EXCEPT !.owner = "Bob"],
     [BaseCandidate EXCEPT !.bank = "SBI"],
     [BaseCandidate EXCEPT !.description = "SWIGGY ORDER 48213"],
     [BaseCandidate EXCEPT !.debit = Rupees(250)],
     [BaseCandidate EXCEPT !.credit = Rupees(5000)]}

\* a row stored before init_db added the category column (lines 100-104)
Legacy(record) ==
    [date |-> record.date, owner |-> record.owner, bank |-> record.bank,
     description |-> record.description, debit |-> record.debit, credit |-> record.credit,
     balance |-> record.balance, category |-> ""]

DupStored ==
    {Enhance(BaseCandidate),
     Legacy([BaseCandidate EXCEPT !.balance = Rupees(9000)]),
     Enhance([BaseCandidate EXCEPT !.date = "02-04-2023"])}

\* records is what parse_csv has returned for the file at hand
InitDup ==
    /\ file = NoFile
    /\ pc = "done"
    /\ df = <<>>
    /\ idx = 0
    /\ sweep_balance = 0
    /\ balance_adjustment = 0
    /\ records \in SeqsUpTo(DupCandidates, MaxBatch)
    /\ transactions \in SeqsUpTo(DupStored, MaxStored)
    /\ sweep_adjustments = <<>>
    /\ session = [proceed_with_load |-> FALSE, confirm_purge |-> FALSE]
    /\ ret = NoRet
    /\ call = NoCall
    /\ ingestions = <<>>

\* line 74: duplicates = check_duplicate_transactions(records)
CheckDuplicates ==
    /\ ret = NoRet
    /\ ret' = [op |-> "duplicates",
               value |-> check_duplicate_transactions(transactions, records)]
    /\ UNCHANGED <<parseVars, storeVars, session, call, ingestions>>

NextDup == CheckDuplicates

SpecDup == InitDup /\ [][NextDup]_vars

KeyOf(r) == <<r.date, r.owner, r.bank, r.description, r.debit, r.credit>>

KeyInLedger(r) == \E i \in DOMAIN transactions : KeyOf(transactions[i]) = KeyOf(r)

\* C3: check_duplicate_transactions counts a candidate exactly when some ledger
\* record has the same (date, owner, bank, description, debit, credit); balance and
\* category play no part.
C3_IdentityKey ==
    ret.op = "duplicates" =>
        ret.value = Cardinality({k \in DOMAIN records : KeyInLedger(records[k])})

\* a candidate that differs from a ledger record only in balance (and from its
\* category) has been counted
C3_Witness ==
    /\ ret.op = "duplicates"
    /\ ret.value = 1
    /\ Len(records) = 1
    /\ \E i \in DOMAIN transactions : KeyOf(transactions[i]) = KeyOf(records[1])
    /\ \A i \in DOMAIN transactions :
          KeyOf(transactions[i]) = KeyOf(records[1]) =>
              /\ transactions[i].balance # records[1].balance
              /\ transactions[i].category = ""


(***************************************************************************)
(* SpecDetect: get_inter_person_transfers on a ledger (claims C7, C8, C9). *)
(* The ledger rows are rows that ingestion stores for the statements of    *)
(* DetectFiles.                                                            *)
(***************************************************************************)
\* statements with both amount columns filled in one row
BobBoth ==
    StatementFile("Bob", "ICICI", "",
        <<RawRow("2023-04-01", "CHEQUE RETURN", "5,000.00", "5,000.00", "7,000.00")>>)
BobLater ==
    StatementFile("Bob", "HDFC", "",
        <<RawRow("02/04/23", "IMPS/P2A/9911/RAVI", "", "5,000.00", "12,000.00")>>)

DetectFiles == {AliceHDFC, AliceHDFCLater, BobSBI, AliceICICI, AliceBoth, BobBoth, BobLater}

DetectRows == UNION {Range(insert_transactions(<<>>, parse_csv(f))) : f \in DetectFiles}

InitDetect ==
    /\ ParseIdle
    /\ sweep_adjustments = <<>>
    /\ session = [proceed_with_load |-> FALSE, confirm_purge |-> FALSE]
    /\ ret = NoRet
    /\ call = NoCall
    /\ ingestions = <<>>
    /\ transactions \in SeqsUpTo(DetectRows, MaxDetect)

\* line 426: transfers_df = get_inter_person_transfers()
Detect ==
    /\ ret = NoRet
    /\ ret' = [op |-> "transfers", value |-> get_inter_person_transfers(transactions)]
    /\ UNCHANGED <<parseVars, storeVars, session, call, ingestions>>

NextDetect == Detect

SpecDetect == InitDetect /\ [][NextDetect]_vars

\* row i pays, row j receives: the pair of the claims
MatchedPair(i, j) ==
    /\ transactions[i].debit > 0
    /\ transactions[j].credit = transactions[i].debit
    /\ transactions[j].date = transactions[i].date

RecordsOfPair(i, j) == {r \in ret.value : {r.from_row, r.to_row} = {i, j}}

\* C7: for a row A with a debit and a row B of another owner with the same amount
\* as credit on the same date, the detector returns exactly one record for the pair,
\* with A as the from side.
C7_PairReportedOnce ==
    ret.op = "transfers" =>
        \A i, j \in DOMAIN transactions :
            (MatchedPair(i, j) /\ transactions[i].owner # transactions[j].owner) =>
                /\ Cardinality(RecordsOfPair(i, j)) = 1
                /\ \A r \in RecordsOfPair(i, j) : r.from_row = i

TwoSided(r) == r.to_row # 0

ExampleLedger ==
    /\ Len(transactions) = 2
    /\ \E i, j \in DOMAIN transactions :
          /\ transactions[i].owner = "Alice" /\ transactions[i].bank = "HDFC"
          /\ transactions[i].debit = Rupees(5000) /\ transactions[i].credit = 0
          /\ transactions[j].owner = "Bob" /\ transactions[j].bank = "SBI"
          /\ transactions[j].credit = Rupees(5000) /\ transactions[j].debit = 0
          /\ transactions[i].date = transactions[j].date

\* C8: every two-sided record joins two rows of one date, the debit of the from row
\* equal to the credit of the to row, of different owner or different bank; its
\* amount is that debit; it is labeled "Inter-Bank (Same Person)" when the owners are
\* equal and "Inter-Person Transfer" otherwise.  Alice/HDFC debit 5000 and Bob/SBI
\* credit 5000 on one date give one record, "Inter-Person Transfer", amount 5000.
C8_ExactRecordFields ==
    ret.op = "transfers" =>
        /\ \A r \in ret.value :
              TwoSided(r) =>
                  LET a == transactions[r.from_row]
                      b == transactions[r.to_row]
                  IN  /\ a.date = b.date /\ r.date = a.date
                      /\ a.debit = b.credit
                      /\ (a.owner # b.owner \/ a.bank # b.bank)
                      /\ r.amount = a.debit
                      /\ r.from_owner = a.owner /\ r.from_bank = a.bank
                      /\ r.to_owner = b.owner /\ r.to_bank = b.bank
                      /\ r.transfer_type = IF a.owner = b.owner
                                           THEN "Inter-Bank (Same Person)"
                                           ELSE "Inter-Person Transfer"
        /\ ExampleLedger =>
              /\ Cardinality(ret.value) = 1
              /\ \A r \in ret.value :
                    /\ r.transfer_type = "Inter-Person Transfer"
                    /\ r.amount = Rupees(5000)
                    /\ r.from_owner = "Alice" /\ r.to_owner = "Bob"

\* the example of the claim has been detected
C8_Witness ==
    /\ ret.op = "transfers"
    /\ ExampleLedger
    /\ \E r \in ret.value :
          /\ TwoSided(r)
          /\ r.transfer_type = "Inter-Person Transfer"
          /\ r.amount = Rupees(5000)

\* some pair of ledger rows satisfies the join
JoinNonEmpty ==
    \E i, j \in DOMAIN transactions :
        /\ MatchedPair(i, j)
        /\ (transactions[i].owner # transactions[j].owner
               \/ transactions[i].bank # transactions[j].bank)

\* C9: when the exact-match join is non-empty the result holds two-sided records
\* only; single-sided (heuristic) records appear only when the join is empty.
C9_HeuristicOnlyWhenJoinEmpty ==
    ret.op = "transfers" =>
        /\ JoinNonEmpty => (ret.value # {} /\ \A r \in ret.value : TwoSided(r))
        /\ ~JoinNonEmpty => \A r \in ret.value : ~TwoSided(r)

\* the join is non-empty, a third row alone would qualify for the heuristic phase,
\* and the result holds no record of it
C9_Witness ==
    /\ ret.op = "transfers"
    /\ JoinNonEmpty
    /\ \E k \in DOMAIN transactions :
          /\ HeuristicWhere(transactions[k])
          /\ \A r \in ret.value : r.from_row # k /\ r.to_row # k
    /\ ret.value # {}
    /\ \A r \in ret.value : TwoSided(r)

\* the join is empty and the heuristic phase has contributed
C9_HeuristicSeen ==
    /\ ret.op = "transfers"
    /\ ~JoinNonEmpty
    /\ \E r \in ret.value : ~TwoSided(r)

(***************************************************************************)
(* SpecStore: the handlers of src/app.py on a store that may hold rows     *)
(* from before the category column existed (init_db, lines 100-104), with  *)
(* data/ holding the files of StoreFiles (claims C13, C17, C19, C20).      *)
(***************************************************************************)
\* the labels categorize_transaction can return
FixedLabels ==
    {"Food & Dining", "Transportation", "Shopping", "Utilities & Bills", "Healthcare",
     "Entertainment", "Education", "Banking & Finance", "Cash Withdrawal", "Transfers",
     "Salary & Income", "Other"}

StoreFiles == {AliceHDFC, AliceHDFCLater, AliceICICI, AliceBoth, Unreadable}

\* what glob.glob may list: one file, or a file and the unreadable one
StoreListings ==
    {<<f>> : f \in StoreFiles}
    \cup {<<Unreadable, f>> : f \in StoreFiles} \cup {<<f, Unreadable>> : f \in StoreFiles}

\* the stores the application may be started on
OlderCandidate ==
    Candidate("01-04-2023", "Alice", "ICICI", "MISC ADJ ENTRY", 0, Rupees(5000), Rupees(5000))

PriorLedgers ==
    {<<>>,
     <<Legacy(BaseCandidate)>>,
     <<Legacy(OlderCandidate), Enhance(BaseCandidate)>>}

InitStore ==
    /\ ParseIdle
    /\ transactions \in PriorLedgers
    /\ sweep_adjustments = <<>>
    /\ session = [proceed_with_load |-> FALSE, confirm_purge |-> FALSE]
    /\ ret = NoRet
    /\ call = NoCall
    /\ ingestions = <<>>

NextStore ==
    \/ \E files \in StoreListings :
          /\ LoadCSVData(files)
          /\ Len(transactions') <= MaxStoreLedger
          /\ UNCHANGED <<parseVars, call, ingestions>>
    \/ ProceedAnyway /\ UNCHANGED <<parseVars, call, ingestions>>
    \/ PurgeData /\ UNCHANGED <<parseVars, call, ingestions>>
    \/ UpdateCategories /\ UNCHANGED <<parseVars, call, ingestions>>
    \/ \E d \in AdjDates, o \in AdjOwners, a \in AdjAmounts :
          AddAdjustment(d, o, a) /\ UNCHANGED <<parseVars, call, ingestions>>
    \/ ViewTransfers /\ UNCHANGED <<parseVars, call, ingestions>>

SpecStore == InitStore /\ [][NextStore]_vars

\* C13: "Update Categories" gives every ledger record without a category the label
\* categorize_transaction returns for its description and changes nothing else of
\* it, leaves every record that has a category as it is, and reports the number of
\* records it has given a label.
C13_BackfillOnlyUncategorized ==
    [][ret'.op = "update_categories" =>
          /\ Len(transactions') = Len(transactions)
          /\ \A i \in DOMAIN transactions :
                IF transactions[i].category = ""
                THEN /\ transactions'[i].category = categorize_transaction(transactions[i].description)
                     /\ [transactions'[i] EXCEPT !.category = ""] = transactions[i]
                ELSE transactions'[i] = transactions[i]
          /\ ret'.updated_count =
                Cardinality({i \in DOMAIN transactions : transactions[i].category = ""})]_vars

\* of two ledger records one has just been given its label, the other kept its own
C13_Witness ==
    /\ ret.op = "update_categories"
    /\ ret.updated_count = 1
    /\ Len(transactions) = 2
    /\ \A i \in DOMAIN transactions : transactions[i].category # ""
    /\ \E i \in DOMAIN transactions : transactions[i].category = "Other"

\* C19: every ledger record has a debit and a credit that are not negative and
\* not both positive.
C19_OneSidedAmounts ==
    \A i \in DOMAIN transactions :
        /\ transactions[i].debit >= 0
        /\ transactions[i].credit >= 0
        /\ ~(transactions[i].debit > 0 /\ transactions[i].credit > 0)

\* C20: whatever the handler, the purge apart, a ledger record stays in its place
\* with its date, owner, bank, description, debit, credit and balance; its category
\* changes only when "Update Categories" gives a record without category its label.
C20_RecordsImmutable ==
    [][ret'.op # "purge" =>
          \A i \in DOMAIN transactions :
              /\ i \in DOMAIN transactions'
              /\ [transactions'[i] EXCEPT !.category = ""]
                    = [transactions[i] EXCEPT !.category = ""]
              /\ transactions'[i].category # transactions[i].category =>
                    /\ transactions[i].category = ""
                    /\ transactions'[i].category \in FixedLabels
                    /\ ret'.op = "update_categories"]_vars

\* a ledger started with older rows has gone through ingestion, a sweep adjustment
\* and a back-fill
C20_Witness ==
    /\ ret.op = "update_categories"
    /\ ret.updated_count >= 1
    /\ Len(transactions) >= 3
    /\ sweep_adjustments # <<>>

\* C29: the purge leaves no transaction, so that get_transaction_count is 0, and
\* the count it reports is the number of ledger records there were before it.
C29_PurgeCountsTransactions ==
    [][ret'.op = "purge" =>
          /\ get_transaction_count(transactions') = 0
          /\ ret'.deleted_count = Len(transactions)]_vars

(***************************************************************************)
(* SpecFresh: the same handlers on a store that init_db has just created   *)
(* (claim C30).                                                            *)
(***************************************************************************)
SpecFresh == Init /\ [][NextStore]_vars

\* C30: on a store that started empty every ledger record has the category
\* categorize_transaction gives for its description, never the empty one, and
\* "Update Categories" reports 0 records updated.
C30_AlwaysCategorized ==
    /\ \A i \in DOMAIN transactions :
          /\ transactions[i].category # ""
          /\ transactions[i].category = categorize_transaction(transactions[i].description)
    /\ ret.op = "update_categories" => ret.updated_count = 0

\* "Update Categories" on a ledger that loads have filled
C30_Witness ==
    /\ ret.op = "update_categories"
    /\ ret.updated_count = 0
    /\ Len(transactions) >= 2
    /\ \E i \in DOMAIN transactions : transactions[i].category = "Other"
    /\ \E i \in DOMAIN transactions : transactions[i].category = "Transfers"

(***************************************************************************)
(* Files that cannot be read: claim C17 (SpecStore).                       *)
(***************************************************************************)
\* the listing without the files that cannot be read
WithoutUnreadable(files) == SelectSeq(files, LAMBDA f : f.readable)

\* the loop's result on a listing, from the ledger as it is
LoopOn(files) ==
    LoadLoop([table |-> transactions, loaded_count |-> 0, skipped_count |-> 0], files)

\* C17: parse_csv returns no record for a file that cannot be read, and a run of the
\* load loop on a listing with such files leaves the ledger and the counts that the
\* run on the listing without them leaves.
C17_UnreadableFileSkipped ==
    [][\A files \in StoreListings :
          Loads(files) =>
              /\ \A i \in DOMAIN files : ~files[i].readable => parse_csv(files[i]) = <<>>
              /\ transactions' = LoopOn(WithoutUnreadable(files)).table
              /\ ret'.loaded_count = LoopOn(WithoutUnreadable(files)).loaded_count
              /\ ret'.skipped_count = LoopOn(WithoutUnreadable(files)).skipped_count]_vars

\* a listing with an unreadable file first has been loaded, the file after it ingested
C17_Witness ==
    /\ ret.op = "load"
    /\ Len(ret.files) = 2
    /\ ~ret.files[1].readable
    /\ ret.files[2].readable
    /\ ret.loaded_count = 1
    /\ transactions # <<>>

(***************************************************************************)
(* SpecView: the sweep adjustments and the views of the ledger, on ledgers *)
(* as ingestion leaves them (claims C21, C27, C28).                        *)
(***************************************************************************)
ViewPool ==
    {Enhance(Candidate("31-03-2023", "Alice", "HDFC", "SALARY MARCH", 0, Rupees(5000), Rupees(15000))),
     Enhance(BaseCandidate),
     Enhance(Candidate("02-04-2023", "Alice", "ICICI", "ATM WDL 0042", Rupees(1000), 0, Rupees(4000))),
     Enhance(Candidate("01-04-2023", "Bob", "SBI", "UPI/YESB/1234/JOHN", 0, Rupees(5000), Rupees(7000)))}

ViewLedgers == SeqsUpTo(ViewPool, MaxViewLedger)

\* what the user may enter under "Add Adjustment"
ViewAdjustments ==
    {[date |-> "2023-04-01", owner |-> "Alice", amount |-> Rupees(1000)],
     [date |-> "2023-04-02", owner |-> "Alice", amount |-> 0 - Rupees(250)],
     [date |-> "2023-04-01", owner |-> "Bob", amount |-> Rupees(1000)]}

InitView ==
    /\ ParseIdle
    /\ transactions \in ViewLedgers
    /\ sweep_adjustments = <<>>
    /\ session = [proceed_with_load |-> FALSE, confirm_purge |-> FALSE]
    /\ ret = NoRet
    /\ call = NoCall
    /\ ingestions = <<>>

NextView ==
    \/ \E adj \in ViewAdjustments :
          /\ Len(sweep_adjustments) < MaxViewAdjustments
          /\ AddAdjustmentClicked(adj.date, adj.owner, adj.amount)
          /\ UNCHANGED <<parseVars, call, ingestions>>
    \/ ViewDashboard /\ UNCHANGED <<parseVars, call, ingestions>>
    \/ ViewAccounts /\ UNCHANGED <<parseVars, call, ingestions>>

SpecView == InitView /\ [][NextView]_vars

\* C21: "Add Adjustment" appends one entry to the adjustments and leaves the
\* adjustments stored before and every ledger record as they are; building the
\* view with the adjustments applied changes neither the ledger nor the adjustments.
C21_AdjustmentsAdditive ==
    [][/\ ret'.op = "add_adjustment" =>
             /\ transactions' = transactions
             /\ Len(sweep_adjustments') = Len(sweep_adjustments) + 1
             /\ SubSeq(sweep_adjustments', 1, Len(sweep_adjustments)) = sweep_adjustments
       /\ ret'.op = "dashboard" =>
             /\ transactions' = transactions
             /\ sweep_adjustments' = sweep_adjustments]_vars

\* a second adjustment has been added to a ledger with records
C21_Witness ==
    /\ ret.op = "add_adjustment"
    /\ Len(sweep_adjustments) = 2
    /\ sweep_adjustments[1].date = sweep_adjustments[2].date
    /\ sweep_adjustments[1].owner = sweep_adjustments[2].owner
    /\ transactions # <<>>

\* adjustment k covers ledger record i: same owner, record dated on or after it
Covers(k, i) ==
    /\ sweep_adjustments[k].owner = transactions[i].owner
    /\ Chrono(Strptime(sweep_adjustments[k].date, Fmt_Y_m_d))
          <= Chrono(Strptime(transactions[i].date, Fmt_d_m_Y))

\* C27: in the view, the balance of every ledger record is its stored balance plus
\* the amounts of the adjustments of its owner dated on or before its date, and
\* of no other adjustment.
C27_AdjustmentsFromDateForOwner ==
    ret.op = "dashboard" =>
        /\ {ret.value[k].id : k \in DOMAIN ret.value} = DOMAIN transactions
        /\ \A k \in DOMAIN ret.value :
              ret.value[k].balance =
                  transactions[ret.value[k].id].balance
                  + SeqSum([a \in DOMAIN sweep_adjustments |->
                               IF Covers(a, ret.value[k].id)
                               THEN sweep_adjustments[a].amount ELSE 0])

\* a view in which one record carries two adjustments, one of them of its own
\* date, and another record of the same owner carries none
C27_Witness ==
    /\ ret.op = "dashboard"
    /\ Len(sweep_adjustments) = 2
    /\ \E k, n \in DOMAIN ret.value :
          /\ Covers(1, ret.value[k].id) /\ Covers(2, ret.value[k].id)
          /\ transactions[ret.value[k].id].date = "01-04-2023"
          /\ sweep_adjustments[1].date = "2023-04-01"
          /\ ret.value[k].balance = transactions[ret.value[k].id].balance
                + sweep_adjustments[1].amount + sweep_adjustments[2].amount
          /\ ret.value[n].owner = ret.value[k].owner
          /\ ~Covers(1, ret.value[n].id) /\ ~Covers(2, ret.value[n].id)
          /\ ret.value[n].balance = transactions[ret.value[n].id].balance

\* C28: the Accounts tab shows, for every account of the ledger, the balances of
\* the records of the account's latest date, and nothing else.
C28_LatestBalancePerAccount ==
    ret.op = "accounts" =>
        {r.row : r \in ret.value} =
            {i \in DOMAIN transactions :
                \A o \in DOMAIN transactions :
                    (transactions[o].owner = transactions[i].owner
                        /\ transactions[o].bank = transactions[i].bank)
                    => Chrono(Strptime(transactions[o].date, Fmt_d_m_Y))
                          <= Chrono(Strptime(transactions[i].date, Fmt_d_m_Y))}


(***************************************************************************)
(* SpecPar: two ingestions side by side on one store, each at the loop     *)
(* body of lines 72-81 of src/app.py with the records parse_csv has        *)
(* returned to it.  check_duplicate_transactions and insert_transactions   *)
(* each open their own connection and commit on their own, so that the     *)
(* calls of the two ingestions interleave in any order (claim C22).        *)
(***************************************************************************)
ParCandidates ==
    {BaseCandidate,
     [BaseCandidate EXCEPT !.balance = Rupees(9000)],
     [BaseCandidate EXCEPT !.date = "02-04-2023"],
     [BaseCandidate EXCEPT !.owner = "Bob"]}

\* the records of one file: no identity key twice
ParBatches ==
    {b \in SeqsUpTo(ParCandidates, MaxParallelBatch) :
        /\ b # <<>>
        /\ \A i, j \in DOMAIN b : i # j => ~SameIdentity(b[i], b[j])}

ParLedgers == {<<>>, <<Enhance(BaseCandidate)>>, <<Enhance([BaseCandidate EXCEPT !.owner = "Bob"])>>}

InitPar ==
    /\ ParseIdle
    /\ transactions \in ParLedgers
    /\ sweep_adjustments = <<>>
    /\ session = [proceed_with_load |-> FALSE, confirm_purge |-> FALSE]
    /\ ret = NoRet
    /\ call = NoCall
    /\ ingestions \in [1..2 -> {[at |-> "check", records |-> b, duplicates |-> 0] : b \in ParBatches}]

\* line 75 in ingestion p
CheckIn(p) ==
    /\ ingestions[p].at = "check"
    /\ ingestions' = [ingestions EXCEPT
                         ![p].duplicates = check_duplicate_transactions(transactions, ingestions[p].records),
                         ![p].at = "insert"]
    /\ UNCHANGED <<parseVars, storeVars, appVars, call>>

\* line 80 in ingestion p
InsertIn(p) ==
    /\ ingestions[p].at = "insert"
    /\ transactions' = insert_transactions(transactions, ingestions[p].records)
    /\ ingestions' = [ingestions EXCEPT ![p].at = "done"]
    /\ UNCHANGED <<parseVars, sweep_adjustments, appVars, call>>

NextPar ==
    \/ \E p \in 1..2 : CheckIn(p)
    \/ \E p \in 1..2 : InsertIn(p)

SpecPar == InitPar /\ [][NextPar]_vars

\* C22: whatever the interleaving of the two ingestions, no identity key is in the
\* ledger twice: a record whose key the ledger holds, or the other ingestion
\* inserts, is not inserted again.
C22_NoKeyInsertedTwice ==
    \A i, j \in DOMAIN transactions :
        i # j => KeyOf(transactions[i]) # KeyOf(transactions[j])


(***************************************************************************)
(* SpecFn: one call of categorize_transaction, safe_float or parse_date,   *)
(* on an argument out of the sets below, whatever the ledger holds         *)
(* (claims C11, C12, C14, C15).                                            *)
(***************************************************************************)
FnDescriptions ==
    {"", " ", "SWIGGY ORDER 48213", "UPI/YESB/1234/JOHN", "MISC ADJ ENTRY", "swiggy order",
     "LATE FEE", "CC  PAYMENT", "AMAZON PRIME VIDEO", "Salary credit", "ATM WDL 0042",
     "CHQ DEP 000123"}

\* an amount as a statement writes it: the digits with their thousands separators,
\* and the number of hundredths they stand for
AmountNumbers ==
    {[text |-> "1,000.00", value |-> Rupees(1000)],
     [text |-> "11,21,000.00", value |-> Rupees(1121000)],
     [text |-> "500", value |-> Rupees(500)],
     [text |-> "0.50", value |-> 50]}

CurrencyPrefixes == {"", "₹", "Rs.", "Rs", "Rs. ", "₹ "}

\* parentheses: none, around prefix and digits, around the digits after the prefix
Wraps == {"none", "all", "digits"}

AmountForms == [number : AmountNumbers, prefix : CurrencyPrefixes, wrap : Wraps]

Written(a) ==
    CASE a.wrap = "none"   -> a.prefix \o a.number.text
      [] a.wrap = "all"    -> "(" \o a.prefix \o a.number.text \o ")"
      [] a.wrap = "digits" -> a.prefix \o "(" \o a.number.text \o ")"

SignedValue(a) == IF a.wrap = "none" THEN a.number.value ELSE 0 - a.number.value

\* blank and unparsable cells
NoAmounts == {"", " ", "abc", "n/a", "-", "12.3.4", "1,000.00 Cr"}

FnDates ==
    {"26-Apr-23", "1-apr-99", "01/04/23", "05-04-2022", "05/04/2022", "2022-04-05", "05-04-22",
     "29-Feb-24", "31-Feb-23", " 26-Apr-23 ", "n/a", " n/a ", "", "26 Apr 2023"}

FnBanks == {"SBI", "HDFC", "sbi", "ICICI", "Unknown"}

FnCalls ==
    {[fn |-> "categorize_transaction", args |-> <<d>>] : d \in FnDescriptions}
    \cup {[fn |-> "safe_float", args |-> <<Written(a)>>] : a \in AmountForms}
    \cup {[fn |-> "safe_float", args |-> <<t>>] : t \in NoAmounts}
    \cup {[fn |-> "parse_date", args |-> <<t, b>>] : t \in FnDates, b \in FnBanks}

\* ledgers as ingestion leaves them
FnLedgers ==
    {<<>>,
     insert_transactions(<<>>, parse_csv(AliceHDFCLater)),
     insert_transactions(<<>>, parse_csv(AliceICICI))}

InitFn ==
    /\ ParseIdle
    /\ transactions \in FnLedgers
    /\ sweep_adjustments = <<>>
    /\ session = [proceed_with_load |-> FALSE, confirm_purge |-> FALSE]
    /\ ret = NoRet
    /\ call \in FnCalls
    /\ ingestions = <<>>

CallCategorize ==
    /\ call.fn = "categorize_transaction"
    /\ ret = NoRet
    /\ ret' = [op |-> "return", value |-> categorize_transaction(call.args[1])]
    /\ UNCHANGED <<parseVars, storeVars, session, call, ingestions>>

CallSafeFloat ==
    /\ call.fn = "safe_float"
    /\ ret = NoRet
    /\ ret' = [op |-> "return", value |-> safe_float(call.args[1])]
    /\ UNCHANGED <<parseVars, storeVars, session, call, ingestions>>

CallParseDate ==
    /\ call.fn = "parse_date"
    /\ ret = NoRet
    /\ ret' = [op |-> "return", value |-> parse_date(call.args[1], call.args[2])]
    /\ UNCHANGED <<parseVars, storeVars, session, call, ingestions>>

NextFn == CallCategorize \/ CallSafeFloat \/ CallParseDate

SpecFn == InitFn /\ [][NextFn]_vars

Returned(fn) == ret.op = "return" /\ call.fn = fn

\* no keyword of any category is in the upper-cased description, and none of the
\* fallback patterns matches it
NoRuleMatches(description) ==
    LET up == Upper(description)
    IN  /\ \A c \in DOMAIN categories : \A k \in DOMAIN categories[c].keywords :
              ~Contains(up, categories[c].keywords[k])
        /\ ~SearchGap(up, "TO", "TRANSFER") /\ ~SearchGap(up, "BY", "TRANSFER")
        /\ ~Contains(up, "CHARGES") /\ ~Contains(up, "FEE")
        /\ ~SearchGap(up, "CREDIT", "CARD") /\ ~SearchGap(up, "CC", "PAYMENT")

\* C11: whatever the description (the empty one included) and whatever the ledger
\* holds, categorize_transaction returns one label of the fixed set; it is "Other"
\* when no keyword and no fallback pattern matches; and it is the label that
\* ingestion stored with any ledger record of the same description.
C11_TotalLabelWithDefault ==
    Returned("categorize_transaction") =>
        /\ ret.value \in FixedLabels
        /\ NoRuleMatches(call.args[1]) => ret.value = "Other"
        /\ \A i \in DOMAIN transactions :
              transactions[i].description = call.args[1] => transactions[i].category = ret.value

\* a description that no rule matches has been categorized
C11_Witness ==
    /\ Returned("categorize_transaction")
    /\ call.args[1] # ""
    /\ NoRuleMatches(call.args[1])
    /\ ret.value = "Other"
    /\ \E i \in DOMAIN transactions : transactions[i].description = call.args[1]

\* C12: "SWIGGY ORDER 48213" is categorized "Food & Dining", "UPI/YESB/1234/JOHN"
\* "Transfers", and "MISC ADJ ENTRY" "Other".
C12_Examples ==
    Returned("categorize_transaction") =>
        /\ call.args[1] = "SWIGGY ORDER 48213" => ret.value = "Food & Dining"
        /\ call.args[1] = "UPI/YESB/1234/JOHN" => ret.value = "Transfers"
        /\ call.args[1] = "MISC ADJ ENTRY" => ret.value = "Other"

C12_Witness ==
    /\ Returned("categorize_transaction")
    /\ call.args[1] = "SWIGGY ORDER 48213"
    /\ ret.value = "Food & Dining"

\* a keyword of the c-th category of the table is in the upper-cased description
KeywordHit(description, c) ==
    \E k \in DOMAIN categories[c].keywords :
        Contains(Upper(description), categories[c].keywords[k])

\* C26: categorize_transaction returns the label of the first category of the
\* table that has a keyword in the upper-cased description, whatever categories
\* listed after it match as well; a fallback pattern decides only when no
\* category has a keyword in it.
C26_FirstMatchWins ==
    Returned("categorize_transaction") =>
        /\ \A c1 \in DOMAIN categories :
              (KeywordHit(call.args[1], c1) /\ \A o \in 1..(c1 - 1) : ~KeywordHit(call.args[1], o))
                  => ret.value = categories[c1].label
        /\ ret.value \notin {categories[c].label : c \in DOMAIN categories}
              => \A c \in DOMAIN categories : ~KeywordHit(call.args[1], c)
        /\ (Contains(Upper(call.args[1]), "FEE")
               /\ \A c \in DOMAIN categories : ~KeywordHit(call.args[1], c))
              => ret.value = "Banking & Finance"

\* a description with keywords of two categories has got the label of the earlier
C26_Witness ==
    /\ Returned("categorize_transaction")
    /\ \E c1, c2 \in DOMAIN categories :
          /\ c1 < c2
          /\ KeywordHit(call.args[1], c1)
          /\ KeywordHit(call.args[1], c2)
          /\ ret.value = categories[c1].label
          /\ ret.value # categories[c2].label

\* C14: safe_float returns the signed value of every amount written with thousands
\* separators, with or without a currency prefix, with or without parentheses for
\* negative, in every combination; and 0 for a blank or unparsable cell.
C14_AmountsAndGarbage ==
    Returned("safe_float") =>
        /\ \A a \in AmountForms : call.args[1] = Written(a) => ret.value = SignedValue(a)
        /\ call.args[1] \in NoAmounts => ret.value = 0

\* the calendar day, as parse_date writes it, of texts in each bank's own format
NativeDates ==
    {[bank |-> "SBI",  text |-> "26-Apr-23", day |-> "26-04-2023"],
     [bank |-> "SBI",  text |-> "1-apr-99",  day |-> "01-04-1999"],
     [bank |-> "SBI",  text |-> "29-Feb-24", day |-> "29-02-2024"],
     [bank |-> "sbi",  text |-> "26-Apr-23", day |-> "26-04-2023"],
     [bank |-> "HDFC", text |-> "01/04/23",  day |-> "01-04-2023"]}

\* the formats that parse the text, by their place in the list
Parsing(text, fmts) == {k \in DOMAIN fmts : Strptime(Strip(text), fmts[k]) # NoDate}

FirstParsing(text, fmts) == CHOOSE k \in Parsing(text, fmts) : \A o \in Parsing(text, fmts) : k <= o

\* C15: with hint SBI or HDFC a text in that bank's format gives the expected day;
\* without a recognised hint the result is that of the first common format, in list
\* order, that parses; a text that no tried format parses is returned as it came.
C15_DateByHint ==
    Returned("parse_date") =>
        /\ \A n \in NativeDates :
              (call.args[1] = n.text /\ call.args[2] = n.bank) => ret.value = n.day
        /\ (Upper(call.args[2]) \notin KnownBanks /\ Parsing(call.args[1], CommonFormats) # {}) =>
              ret.value = Strftime(Strptime(Strip(call.args[1]),
                                            CommonFormats[FirstParsing(call.args[1], CommonFormats)]))
        /\ Parsing(call.args[1], date_formats(call.args[2])) = {} => ret.value = call.args[1]

====
